---- MODULE Spec2Model ----
(***************************************************************************)
(* Verification model of the SIPSA data pipeline (data-pipeline/).         *)
(*                                                                         *)
(* Spec    : the processing orchestrator (processing/processor.py), the    *)
(*           archive expander (processing/zip_handler.py) and the tables   *)
(*           they use through backend/database.py and backend/storage.py;  *)
(*           any sequence of calls of the four entry points.               *)
(* SpecPar : process_all_pending over a backlog of several entries, whose  *)
(*           pool workers interleave.                                      *)
(* SpecDL  : the download phase of the historical scraper                  *)
(*           (scraping/historical.py, scraping/scraper_base.py), whose     *)
(*           download threads interleave.                                  *)
(*                                                                         *)
(* Modelling assumptions, stated once:                                     *)
(*  - the persistence collaborator is reachable: single-row reads and      *)
(*    writes succeed.  The failures the code itself counts are modelled:   *)
(*    a failed insert batch (bulk_insert_prices), a failed                 *)
(*    create_extracted_pdf, a failed storage upload or download.           *)
(*  - the tables are plain tables: insert adds a row (the schema is not    *)
(*    part of the sources, database.py issues plain inserts).              *)
(*  - the object store rejects an upload to an existing path ("already     *)
(*    exists"), which is the case zip_handler.py:127-135 handles.          *)
(*  - a stored file never changes: what a parser finds in it is fixed the  *)
(*    first time the file is read and is the same on every later read.     *)
(*  - top-level orchestrator calls run one after another (spec section 5:  *)
(*    concurrent invocations are the caller's responsibility); inside      *)
(*    process_all_pending the pool workers interleave at database and      *)
(*    storage calls.                                                       *)
(***************************************************************************)
EXTENDS Integers, Sequences, FiniteSets, TLC

\* ---- bounds of the model
NEntries == 1      \* source entries in the backlog of Spec
NWorkers == 2      \* source entries in the backlog of SpecPar
NLinks == 2        \* FileLinks collected by one scraper run of SpecDL
NDocs == 1         \* distinct derived storage paths of embedded documents
MaxOps == 2        \* top-level calls in one behaviour of Spec
MaxParCalls == 1   \* process_all_pending calls in one behaviour of SpecPar
MaxPdfRows == 5    \* table rows of the PDF parsed in SpecParse
MaxSheetRows == 2  \* data rows of the spreadsheet parsed in SpecParse
MaxPageRows == 2   \* table rows of the page read in SpecCall

\* ---- program constants
MAX_THREADS == 4
BatchSize == 100

Docs == 1..NDocs
\* numbers of price records / of defects a parser finds in one file
RecChoices == {0, BatchSize + 1}
DefChoices == {0, 1}

VARIABLES
    download_entries,   \* table: entry id -> [file_type, pdfdir, row_date, processed_status]
    extracted_pdfs,     \* table, by download_entry_id: the rows [storage_path, processed_status]
                        \* of that owner in creation order; the row id is <<owner, index>>
    processed_prices,   \* table, as row counts: [entry id -> [0 (the entry's file) or doc path -> rows]]
    processing_errors,  \* table, by download_entry_id: the error rows of that entry in
                        \* creation order; the row id is <<entry, index>>
    storage,            \* extracted-document paths present in the bucket
    files,              \* what the stored file of an entry holds
    docfiles,           \* what the stored object at an extracted-document path holds
    frame,              \* the running _process_entry invocation of each entry
    op,                 \* the running (or last finished) top-level call
    budget,             \* top-level calls the behaviour may still start
    scrape,             \* scraper: one run, its found and kept FileLinks (all_links), its
                        \* parallel flag and the download_errors it logged
    task,               \* scraper: the download task of each FileLink
    bucket,             \* scraper: storage paths of the downloaded files in the bucket
    parser,             \* table extractor: the running parse of one document
    call                \* one call of a pure function: its input and its result

vars == <<download_entries, extracted_pdfs, processed_prices, processing_errors,
          storage, files, docfiles, frame, op, budget, scrape, task, bucket,
          parser, call>>

\* the scraper's state, untouched by the processor
scraper == <<scrape, task, bucket>>

\* the state of the components that are checked as pure functions, untouched
\* by the orchestrator and by the scraper's download threads
pure == <<parser, call>>
\* the state of the orchestrator
orchestrator == <<download_entries, extracted_pdfs, processed_prices, processing_errors,
                  storage, files, docfiles, frame, op, budget>>
\* no document is being parsed, no function is being called
NoParse == [kind |-> "none"]
NoCall == [fn |-> "none"]

Entries == DOMAIN download_entries
\* the extracted_pdf_id of an error that names no extracted PDF
NoPdf == <<0, 0>>

\* ------------------------------------------------------------------------
\* helpers
RECURSIVE SortedSeq(_)
SortedSeq(S) ==
    IF S = {} THEN <<>>
    ELSE LET m == CHOOSE x \in S : \A y \in S : x <= y
         IN <<m>> \o SortedSeq(S \ {m})

\* the ids <<e, k>> of a table kept by entry, in entry then creation order
RECURSIVE IdsOf(_, _)
IdsOf(tbl, S) ==
    IF S = {} THEN <<>>
    ELSE LET e == CHOOSE x \in S : \A y \in S : x <= y
         IN [k \in 1..Len(tbl[e]) |-> <<e, k>>] \o IdsOf(tbl, S \ {e})
AllIds(tbl) == IdsOf(tbl, DOMAIN tbl)
Row(tbl, id) == tbl[id[1]][id[2]]

RECURSIVE SumOver(_, _)
SumOver(f, S) ==
    IF S = {} THEN 0
    ELSE LET x == CHOOSE y \in S : TRUE IN f[x] + SumOver(f, S \ {x})

Prefix(s, n) == SubSeq(s, 1, IF Len(s) < n THEN Len(s) ELSE n)
Suffix(s, n) == SubSeq(s, (IF Len(s) < n THEN Len(s) ELSE n) + 1, Len(s))
Range(s) == {s[i] : i \in 1..Len(s)}

\* ------------------------------------------------------------------------
\* file contents
UnknownFile == [known |-> FALSE, state |-> "ok", docs |-> {}, recs |-> 0, defs |-> 0]
UnknownDoc == [known |-> FALSE, recs |-> 0, defs |-> 0]

\* an archive: readable with some embedded documents, not a zip file
\* (BadZipFile), or failing in extractall with another exception
ZipContents ==
    {[known |-> TRUE, state |-> "ok", docs |-> D, recs |-> 0, defs |-> 0] : D \in SUBSET Docs}
    \cup {[known |-> TRUE, state |-> s, docs |-> {}, recs |-> 0, defs |-> 0] : s \in {"bad", "throws"}}

\* a PDF: PDFParser.parse catches everything and returns records and defects
PdfContents ==
    {[known |-> TRUE, state |-> "ok", docs |-> {}, recs |-> r, defs |-> d] :
        r \in RecChoices, d \in DefChoices}

\* a spreadsheet: ExcelParser.parse re-raises what the readers raise
ExcelContents ==
    PdfContents \cup {[known |-> TRUE, state |-> "throws", docs |-> {}, recs |-> 0, defs |-> 0]}

DocContents == {[known |-> TRUE, recs |-> r, defs |-> d] : r \in RecChoices, d \in DefChoices}

FileOf(e, choices) == IF files[e].known THEN {files[e]} ELSE choices
DocOf(d) == IF docfiles[d].known THEN {docfiles[d]} ELSE DocContents

\* ------------------------------------------------------------------------
\* backend/database.py

\* a fetch that forgets the processed_status filter
get_all_download_entries ==
    SortedSeq(Entries)

\* get_unprocessed_download_entries: the rows with processed_status = False
get_unprocessed_download_entries ==
    SortedSeq({e \in Entries : ~download_entries[e].processed_status})

\* update_download_entry_status(entry_id, True)
update_download_entry_status(tbl, e) ==
    [tbl EXCEPT ![e].processed_status = TRUE]

\* The schema of the tables (the .sql migrations run by migrations/run_migrations.py)
\* is not among the sources.  The persistence collaborator is described as plain
\* create/read/update with deduplication done by the callers' existence checks:
\* an insert is accepted whatever rows the table already holds.
InsertAccepted(tbl, row) == TRUE

\* get_extracted_pdf_by_storage_path: the rows at that path (the code takes response.data[0])
get_extracted_pdf_by_storage_path(path) ==
    {id \in Range(AllIds(extracted_pdfs)) : Row(extracted_pdfs, id).storage_path = path}

\* get_unprocessed_extracted_pdfs(download_entry_id)
get_unprocessed_extracted_pdfs(tbl, e) ==
    LET Keep(id) == ~Row(tbl, id).processed_status
    IN SelectSeq(IdsOf(tbl, {e}), Keep)

\* update_extracted_pdf_status(pdf_id, True)
update_extracted_pdf_status(tbl, id) ==
    [tbl EXCEPT ![id[1]][id[2]].processed_status = TRUE]

\* bulk_insert_prices: the records go in batches of 100, a batch that raises is
\* counted in error_count and the loop goes on
NumBatches(n) == (n + BatchSize - 1) \div BatchSize
BatchLen(n, b) == IF b * BatchSize <= n THEN BatchSize ELSE n - (b - 1) * BatchSize
RECURSIVE BatchRows(_, _)
BatchRows(n, B) ==
    IF B = {} THEN 0
    ELSE LET b == CHOOSE x \in B : TRUE IN BatchLen(n, b) + BatchRows(n, B \ {b})
bulk_insert_prices(n, failing) ==
    [success_count |-> BatchRows(n, (1..NumBatches(n)) \ failing),
     error_count |-> BatchRows(n, (1..NumBatches(n)) \cap failing)]

\* create_processing_error: a new unresolved row with retry_count 0
NewError(type, pdf) ==
    [error_type |-> type, extracted_pdf_id |-> pdf,
     retry_count |-> 0, resolved |-> FALSE, rerun_prices |-> -1]
\* a logging loop that persists nothing
create_processing_errors_lost(tbl, errs, e) == tbl

RECURSIVE create_processing_errors(_, _, _)
create_processing_errors(tbl, errs, e) ==
    IF errs = <<>> THEN tbl
    ELSE create_processing_errors(
            [tbl EXCEPT ![e] = Append(@, NewError(Head(errs).error_type,
                                                  Head(errs).extracted_pdf_id))],
            Tail(errs), e)

\* get_unresolved_errors(error_type): "any" stands for no filter
get_unresolved_errors(error_type) ==
    LET Keep(id) ==
            /\ ~Row(processing_errors, id).resolved
            /\ (error_type = "any" \/ Row(processing_errors, id).error_type = error_type)
    IN SelectSeq(AllIds(processing_errors), Keep)

\* an increment whose update is lost
increment_error_retry_lost(tbl, id) == tbl

\* increment_error_retry
increment_error_retry(tbl, id) ==
    [tbl EXCEPT ![id[1]][id[2]].retry_count = @ + 1]

\* mark_error_resolved; rerun_prices remembers what the re-run inserted
mark_error_resolved(tbl, id, inserted) ==
    [tbl EXCEPT ![id[1]][id[2]].resolved = TRUE, ![id[1]][id[2]].rerun_prices = inserted]

\* ------------------------------------------------------------------------
\* processing/processor.py: _process_pdf and _process_excel

ParserErrors(c, pdf) ==
    [k \in 1..c.defs |-> [error_type |-> "parse_defect", extracted_pdf_id |-> pdf]]

\* _process_pdf: download, parse, insert; returns (success_count, result.errors)
process_pdf(c, dl, failing, pdf) ==
    IF ~dl
    THEN [prices |-> 0, produced |-> 0,
          errors |-> <<[error_type |-> "download_failed", extracted_pdf_id |-> pdf]>>]
    ELSE IF c.recs > 0
    THEN [prices |-> bulk_insert_prices(c.recs, failing).success_count,
          produced |-> c.recs, errors |-> ParserErrors(c, pdf)]
    ELSE [prices |-> 0, produced |-> 0, errors |-> ParserErrors(c, pdf)]

\* _process_excel: the same shape (the parser's exception is handled by the caller)
process_excel(c, dl, failing) ==
    IF ~dl
    THEN [prices |-> 0, produced |-> 0,
          errors |-> <<[error_type |-> "download_failed", extracted_pdf_id |-> NoPdf]>>]
    ELSE IF c.recs > 0
    THEN [prices |-> bulk_insert_prices(c.recs, failing).success_count,
          produced |-> c.recs, errors |-> ParserErrors(c, NoPdf)]
    ELSE [prices |-> 0, produced |-> 0, errors |-> ParserErrors(c, NoPdf)]

FailChoices(c, dl) == IF dl /\ c.recs > 0 THEN SUBSET (1..NumBatches(c.recs)) ELSE {{}}

\* ------------------------------------------------------------------------
\* processing/processor.py: _process_entry, one frame per entry

IdleFrame ==
    [pc |-> "idle",
     total_prices |-> 0, total_errors |-> 0, all_errors |-> <<>>,
     success |-> TRUE, extraction_success |-> TRUE,
     \* extract_and_store
     pdf_files |-> <<>>, pdf_ids |-> <<>>, total_found |-> 0,
     already_processed |-> 0, newly_extracted |-> 0, failed_uploads |-> 0,
     \* _process_zip
     todo |-> <<>>,
     \* what happened in this run: records the parsers produced, whether
     \* update_download_entry_status was called, whether the except branch ran,
     \* whether the bulletin short-circuit returned, and the value returned
     expanded |-> FALSE, produced |-> 0,
     update_called |-> FALSE, threw |-> FALSE,
     skipped |-> FALSE, result_success |-> FALSE,
     \* number of error rows of the entry when the run began
     errors_at_start |-> 0]

BeginFrame(e) ==
    [IdleFrame EXCEPT !.pc = "begin", !.errors_at_start = Len(processing_errors[e])]

\* a router without the '/pdf/' test: every pdf entry is parsed
IsBulletinNever(entry) == FALSE

\* storage_path contains '/pdf/' : the bulletin directory
IsBulletin(entry) == entry.file_type = "pdf" /\ entry.pdfdir

\* a result that reports success without looking at the inserted count
ResultSuccessFlag(success, total_prices) == success

\* a result that looks at the inserted count only
ResultSuccessCount(success, total_prices) == total_prices > 0

\* ProcessingResult.success of the normal return
ResultSuccess(success, total_prices) == success /\ total_prices > 0

\* an except branch that only prints
ExceptionErrorsDropped == <<>>

\* the except branch: success = False and one processing_failed error
ExceptionErrors == <<[error_type |-> "processing_failed", extracted_pdf_id |-> NoPdf]>>

Raise(f, e) ==
    /\ frame' = [frame EXCEPT ![e] =
            [f EXCEPT !.pc = "ret", !.success = FALSE, !.threw = TRUE,
                      !.result_success = ResultSuccess(FALSE, f.total_prices)]]
    /\ processing_errors' = create_processing_errors(processing_errors, ExceptionErrors, e)

AddPrices(tbl, e, k, n) == [tbl EXCEPT ![e][k] = @ + n]

\* lines 239-298: route by file type
ProcessEntryBulletin(e) ==
    LET f == frame[e] IN
    /\ f.pc = "begin"
    /\ IsBulletin(download_entries[e])
    /\ download_entries' = update_download_entry_status(download_entries, e)
    /\ frame' = [frame EXCEPT ![e] =
            [f EXCEPT !.pc = "ret", !.skipped = TRUE, !.update_called = TRUE,
                      !.result_success = TRUE]]
    /\ UNCHANGED <<extracted_pdfs, processed_prices, processing_errors, storage,
                   files, docfiles, op, budget, scraper, pure>>

ProcessEntryPdf(e) ==
    LET f == frame[e] IN
    /\ f.pc = "begin"
    /\ download_entries[e].file_type = "pdf"
    /\ ~IsBulletin(download_entries[e])
    /\ \E dl \in BOOLEAN :
       \E c \in (IF dl THEN FileOf(e, PdfContents) ELSE {files[e]}) :
       \E failing \in FailChoices(c, dl) :
         LET r == process_pdf(c, dl, failing, NoPdf) IN
         /\ files' = [files EXCEPT ![e] = c]
         /\ processed_prices' = AddPrices(processed_prices, e, 0, r.prices)
         /\ frame' = [frame EXCEPT ![e] =
                [f EXCEPT !.pc = "log", !.total_prices = r.prices,
                          !.total_errors = Len(r.errors), !.all_errors = r.errors,
                          !.produced = r.produced]]
    /\ UNCHANGED <<download_entries, extracted_pdfs, processing_errors, storage,
                   docfiles, op, budget, scraper, pure>>

ProcessEntryExcel(e) ==
    LET f == frame[e] IN
    /\ f.pc = "begin"
    /\ download_entries[e].file_type = "excel"
    /\ \E dl \in BOOLEAN :
       \E c \in (IF dl THEN FileOf(e, ExcelContents) ELSE {files[e]}) :
       \E failing \in FailChoices(c, dl) :
         /\ files' = [files EXCEPT ![e] = c]
         /\ IF dl /\ c.state = "throws"
            THEN /\ Raise(f, e)
                 /\ UNCHANGED processed_prices
            ELSE LET r == process_excel(c, dl, failing) IN
                 /\ processed_prices' = AddPrices(processed_prices, e, 0, r.prices)
                 /\ frame' = [frame EXCEPT ![e] =
                        [f EXCEPT !.pc = "log", !.total_prices = r.prices,
                                  !.total_errors = Len(r.errors), !.all_errors = r.errors,
                                  !.produced = r.produced]]
                 /\ UNCHANGED processing_errors
    /\ UNCHANGED <<download_entries, extracted_pdfs, storage, docfiles, op, budget, scraper, pure>>

\* ------------------------------------------------------------------------
\* processing/zip_handler.py: extract_and_store, inlined in the frame of the
\* archive entry that runs it (ZIPHandler(download_entry_id))

\* an expansion that always reports success
ExtractionAlwaysSucceeds(failed_uploads) == TRUE

\* an expansion that never reports success
ExtractionNeverSucceeds(failed_uploads) == FALSE

\* ExtractionResult.success
ExtractionSuccess(failed_uploads) == failed_uploads = 0

\* outcome of storage.upload_from_file for one embedded document
UploadOutcomes(d) == IF d \in storage THEN {"exists", "error"} ELSE {"ok", "error"}

\* lines 129-139: a success, or a conflict meaning "already exists", creates the row
ShouldCreateDbEntry(outcome) == outcome \in {"ok", "exists"}

\* the for loop moves on to the next embedded document
NextPdf(f) ==
    [f EXCEPT !.pdf_files = Tail(@),
              !.pc = IF Tail(f.pdf_files) = <<>> THEN "fetch" ELSE "x_check"]

\* lines 71-96: download the archive, extract it, list the embedded PDFs
ExtractOpen(e) ==
    LET f == frame[e] IN
    /\ f.pc = "begin"
    /\ download_entries[e].file_type = "zip"
    /\ \E dl \in BOOLEAN :
       \E c \in (IF dl THEN FileOf(e, ZipContents) ELSE {files[e]}) :
         /\ files' = [files EXCEPT ![e] = c]
         /\ IF dl /\ c.state = "throws"
            THEN Raise(f, e)
            ELSE /\ UNCHANGED processing_errors
                 /\ frame' = [frame EXCEPT ![e] =
                      IF ~dl \/ c.state = "bad"
                      THEN [f EXCEPT !.pc = "fetch", !.expanded = TRUE,
                                     !.failed_uploads = 1]
                      ELSE [f EXCEPT !.pc = IF c.docs = {} THEN "fetch" ELSE "x_check",
                                     !.expanded = TRUE,
                                     !.pdf_files = SortedSeq(c.docs),
                                     !.total_found = Cardinality(c.docs)]]
    /\ UNCHANGED <<download_entries, extracted_pdfs, processed_prices, storage,
                   docfiles, op, budget, scraper, pure>>

\* lines 111-122: look the derived storage path up
ExtractCheck(e) ==
    LET f == frame[e]
        rows == get_extracted_pdf_by_storage_path(Head(f.pdf_files))
    IN
    /\ f.pc = "x_check"
    /\ IF rows = {}
       THEN frame' = [frame EXCEPT ![e].pc = "x_upload"]
       ELSE \E i \in rows :
              frame' = [frame EXCEPT ![e] =
                 IF Row(extracted_pdfs, i).processed_status
                 THEN NextPdf([f EXCEPT !.already_processed = @ + 1])
                 ELSE NextPdf([f EXCEPT !.pdf_ids = Append(@, i)])]
    /\ UNCHANGED <<download_entries, extracted_pdfs, processed_prices, processing_errors,
                   storage, files, docfiles, op, budget, scraper, pure>>

\* lines 124-139: upload the bytes
ExtractUpload(e) ==
    LET f == frame[e]
        d == Head(f.pdf_files)
    IN
    /\ f.pc = "x_upload"
    /\ \E outcome \in UploadOutcomes(d) :
         /\ storage' = IF outcome = "ok" THEN storage \cup {d} ELSE storage
         /\ frame' = [frame EXCEPT ![e] =
                IF ShouldCreateDbEntry(outcome)
                THEN [f EXCEPT !.pc = "x_create"]
                ELSE NextPdf([f EXCEPT !.failed_uploads = @ + 1])]
    /\ UNCHANGED <<download_entries, extracted_pdfs, processed_prices, processing_errors,
                   files, docfiles, op, budget, scraper, pure>>

\* lines 141-162: create the extracted_pdfs row
ExtractCreate(e) ==
    LET f == frame[e]
        d == Head(f.pdf_files)
    IN
    /\ f.pc = "x_create"
    /\ \E created \in {InsertAccepted(extracted_pdfs, d), FALSE} :
         IF created
         THEN /\ extracted_pdfs' = [extracted_pdfs EXCEPT ![e] =
                    Append(@, [storage_path |-> d, processed_status |-> FALSE])]
              /\ frame' = [frame EXCEPT ![e] =
                    NextPdf([f EXCEPT !.pdf_ids = Append(@, <<e, Len(extracted_pdfs[e]) + 1>>),
                                      !.newly_extracted = @ + 1])]
         ELSE /\ UNCHANGED extracted_pdfs
              /\ frame' = [frame EXCEPT ![e] =
                    NextPdf([f EXCEPT !.failed_uploads = @ + 1])]
    /\ UNCHANGED <<download_entries, processed_prices, processing_errors, storage,
                   files, docfiles, op, budget, scraper, pure>>

\* ------------------------------------------------------------------------
\* processing/processor.py: _process_zip

\* line 372: the unprocessed extracted PDFs of this entry
ZipFetch(e) ==
    LET f == frame[e]
        rows == get_unprocessed_extracted_pdfs(extracted_pdfs, e)
    IN
    /\ f.pc = "fetch"
    /\ frame' = [frame EXCEPT ![e] =
            [f EXCEPT !.pc = IF rows = <<>> THEN "log" ELSE "docs",
                      !.todo = rows,
                      !.extraction_success = ExtractionSuccess(f.failed_uploads)]]
    /\ UNCHANGED <<download_entries, extracted_pdfs, processed_prices, processing_errors,
                   storage, files, docfiles, op, budget, scraper, pure>>

\* lines 385-394: a document with no record and no defect gets its own defect
PdfNoPricesErrors(prices, errors, id) ==
    IF prices = 0 /\ errors = <<>>
    THEN <<[error_type |-> "no_prices_extracted", extracted_pdf_id |-> id]>>
    ELSE <<>>

\* a loop that marks every document it has handled
MarkPdfAlways(prices, errors) == TRUE

\* lines 396-398
MarkPdfProcessed(prices, errors) == prices > 0 \/ errors = <<>>

\* lines 375-398: one turn of the loop over the extracted PDFs
ZipDoc(e) ==
    LET f == frame[e]
        id == Head(f.todo)
        d == Row(extracted_pdfs, id).storage_path
    IN
    /\ f.pc = "docs"
    /\ \E dl \in BOOLEAN :
       \E c \in (IF dl THEN DocOf(d) ELSE {docfiles[d]}) :
       \E failing \in FailChoices(c, dl) :
         LET r == process_pdf(c, dl, failing, id)
             errs == r.errors \o PdfNoPricesErrors(r.prices, r.errors, id)
         IN
         /\ docfiles' = [docfiles EXCEPT ![d] = c]
         /\ processed_prices' = AddPrices(processed_prices, e, d, r.prices)
         /\ extracted_pdfs' = IF MarkPdfProcessed(r.prices, r.errors)
                              THEN update_extracted_pdf_status(extracted_pdfs, id)
                              ELSE extracted_pdfs
         /\ frame' = [frame EXCEPT ![e] =
                [f EXCEPT !.pc = IF Tail(f.todo) = <<>> THEN "log" ELSE "docs",
                          !.todo = Tail(@),
                          !.total_prices = @ + r.prices,
                          !.all_errors = @ \o errs,
                          !.total_errors = Len(f.all_errors \o errs),
                          !.produced = @ + r.produced]]
    /\ UNCHANGED <<download_entries, processing_errors, storage, files, op, budget, scraper, pure>>

\* ------------------------------------------------------------------------
\* processing/processor.py: _process_entry, lines 300-345

\* an orchestrator that never adds the entry-level defect
NoPricesErrorsNever(total_prices) == <<>>

\* lines 304-314
NoPricesErrors(total_prices) ==
    IF total_prices = 0
    THEN <<[error_type |-> "no_prices_extracted", extracted_pdf_id |-> NoPdf]>>
    ELSE <<>>

ProcessEntryLog(e) ==
    LET f == frame[e]
        np == NoPricesErrors(f.total_prices)
    IN
    /\ f.pc = "log"
    /\ processing_errors' = create_processing_errors(processing_errors, f.all_errors \o np, e)
    /\ frame' = [frame EXCEPT ![e] =
            [f EXCEPT !.pc = "status",
                      !.total_errors = Len(f.all_errors) + Len(np)]]
    /\ UNCHANGED <<download_entries, extracted_pdfs, processed_prices, storage,
                   files, docfiles, op, budget, scraper, pure>>

\* a status update that ignores the expansion outcome
MarkAlways(file_type, extraction_success) == TRUE

\* lines 316-323: an archive whose expansion had failures is not marked
MayMarkProcessed(file_type, extraction_success) ==
    ~(file_type = "zip" /\ ~extraction_success)

ProcessEntryStatus(e) ==
    LET f == frame[e]
        mark == MayMarkProcessed(download_entries[e].file_type, f.extraction_success)
    IN
    /\ f.pc = "status"
    /\ download_entries' = IF mark THEN update_download_entry_status(download_entries, e)
                           ELSE download_entries
    /\ frame' = [frame EXCEPT ![e] =
            [f EXCEPT !.pc = "ret",
                      !.success = mark,
                      !.update_called = mark,
                      !.result_success = ResultSuccess(mark, f.total_prices)]]
    /\ UNCHANGED <<extracted_pdfs, processed_prices, processing_errors, storage,
                   files, docfiles, op, budget, scraper, pure>>

\* the ProcessingResult of a finished frame
ProcessingResult(e) ==
    [entry_id |-> e,
     prices_extracted |-> frame[e].total_prices,
     errors_count |-> frame[e].total_errors,
     success |-> frame[e].result_success,
     threw |-> frame[e].threw]

\* ------------------------------------------------------------------------
\* processing/processor.py: the four entry points

ZeroSummary == [total |-> 0, success |-> 0, failed |-> 0,
                prices_extracted |-> 0, errors_logged |-> 0]

IdleOp ==
    [name |-> "none", phase |-> "idle", error_type |-> "any",
     fetched |-> <<>>, queue |-> <<>>, results |-> {}, summary |-> ZeroSummary,
     i |-> 0, resolved |-> 0,
     \* what the tables held when the call began
     prev_pap |-> FALSE, processed_at_start |-> {},
     prices_at_start |-> <<>>, retry_at_start |-> <<>>]

EntryPrices(e) == SumOver(processed_prices[e], 0..NDocs)

RECURSIVE SumField(_, _)
SumField(R, fld) ==
    IF R = {} THEN 0
    ELSE LET r == CHOOSE x \in R : TRUE IN r[fld] + SumField(R \ {r}, fld)

\* lines 123-145: the summary dict
Summary(results) ==
    [total |-> Cardinality(results),
     success |-> Cardinality({r \in results : r.success}),
     failed |-> Cardinality({r \in results : ~r.success}),
     prices_extracted |-> SumField(results, "prices_extracted"),
     errors_logged |-> SumField(results, "errors_count")]

CanStart == op.phase \in {"idle", "done"} /\ budget > 0

\* the pool runs at most max_threads entries at a time, the sequential loop one
PoolWidth(parallel, n) == IF parallel /\ n > 1 THEN MAX_THREADS ELSE 1

StartFrames(S) == [e \in Entries |-> IF e \in S THEN BeginFrame(e) ELSE frame[e]]

StartCall(name, entries, width) ==
    /\ op' = [IdleOp EXCEPT
            !.name = name,
            !.phase = IF entries = <<>> THEN "done" ELSE "wait",
            !.fetched = entries,
            !.queue = Suffix(entries, width),
            !.prev_pap = (op.name = "pap" /\ op.phase = "done"),
            !.processed_at_start = {e \in Entries : download_entries[e].processed_status},
            !.prices_at_start = [e \in Entries |-> EntryPrices(e)]]
    /\ frame' = StartFrames(Range(Prefix(entries, width)))
    /\ budget' = budget - 1
    /\ UNCHANGED <<download_entries, extracted_pdfs, processed_prices, processing_errors,
                   storage, files, docfiles, scraper, pure>>

\* process_all_pending(parallel)
process_all_pending(parallel) ==
    /\ CanStart
    /\ LET entries == get_unprocessed_download_entries
       IN StartCall("pap", entries, PoolWidth(parallel, Len(entries)))

\* process_entry(entry_id): the entry is run whether or not it is processed
process_entry(e) ==
    /\ CanStart
    /\ StartCall("entry", <<e>>, 1)

\* process_by_date(target_date): every entry of that date, one after another
process_by_date(d) ==
    /\ CanStart
    /\ StartCall("date", SortedSeq({e \in Entries : download_entries[e].row_date = d}), 1)

\* a finished _process_entry hands its result to the caller, which starts the
\* next queued entry; the last one makes the summary
Collect(e) ==
    LET results == op.results \cup {ProcessingResult(e)}
        last == op.queue = <<>> /\ \A x \in Entries \ {e} : frame[x].pc = "idle"
    IN
    /\ op.phase = "wait"
    /\ frame[e].pc = "ret"
    /\ frame' = [x \in Entries |->
                    IF x = e THEN IdleFrame
                    ELSE IF op.queue # <<>> /\ x = Head(op.queue) THEN BeginFrame(x)
                    ELSE frame[x]]
    /\ op' = [op EXCEPT !.results = results,
                        !.queue = IF op.queue = <<>> THEN <<>> ELSE Tail(op.queue),
                        !.phase = IF last THEN "done" ELSE "wait",
                        !.summary = IF last THEN Summary(results) ELSE op.summary]
    /\ UNCHANGED <<download_entries, extracted_pdfs, processed_prices, processing_errors,
                   storage, files, docfiles, budget, scraper, pure>>

\* ------------------------------------------------------------------------
\* retry_errors(error_type)

RetryFilters == {"any", "no_prices_extracted"}

\* lines 495-499
retry_errors(error_type) ==
    /\ CanStart
    /\ LET errors == get_unresolved_errors(error_type) IN
       op' = [IdleOp EXCEPT
            !.name = "retry",
            !.error_type = error_type,
            !.phase = IF errors = <<>> THEN "done" ELSE "inc",
            !.fetched = errors,
            !.i = 1,
            !.processed_at_start = {e \in Entries : download_entries[e].processed_status},
            !.prices_at_start = [e \in Entries |-> EntryPrices(e)],
            !.retry_at_start = [k \in 1..Len(errors) |->
                                    Row(processing_errors, errors[k]).retry_count]]
    /\ budget' = budget - 1
    /\ UNCHANGED <<download_entries, extracted_pdfs, processed_prices, processing_errors,
                   storage, files, docfiles, frame, scraper, pure>>

CurrentError == Row(processing_errors, op.fetched[op.i])

NextError(o) ==
    [o EXCEPT !.i = @ + 1,
              !.phase = IF o.i = Len(o.fetched) THEN "done" ELSE "inc",
              !.summary = [ZeroSummary EXCEPT !.total = Len(o.fetched)]]

\* lines 504-511: every error row of the table carries its entry id (the table is
\* kept by entry), so the "continue" of line 508 is never taken
RetryIncrement ==
    /\ op.phase = "inc"
    /\ processing_errors' = increment_error_retry(processing_errors, op.fetched[op.i])
    /\ op' = [op EXCEPT !.phase = "rerun"]
    /\ UNCHANGED <<download_entries, extracted_pdfs, processed_prices, storage,
                   files, docfiles, frame, budget, scraper, pure>>

\* line 531
RetryPdfResolved(prices) == prices > 0

\* lines 515-533: the error names an extracted PDF, which is processed again
RetryPdf ==
    LET id == op.fetched[op.i]
        err == CurrentError
        d == Row(extracted_pdfs, err.extracted_pdf_id).storage_path
    IN
    /\ op.phase = "rerun"
    /\ err.extracted_pdf_id # NoPdf
    /\ \E dl \in BOOLEAN :
       \E c \in (IF dl THEN DocOf(d) ELSE {docfiles[d]}) :
       \E failing \in FailChoices(c, dl) :
         LET r == process_pdf(c, dl, failing, err.extracted_pdf_id) IN
         /\ docfiles' = [docfiles EXCEPT ![d] = c]
         /\ processed_prices' = AddPrices(processed_prices, id[1], d, r.prices)
         /\ IF RetryPdfResolved(r.prices)
            THEN /\ processing_errors' = mark_error_resolved(processing_errors, id, r.prices)
                 /\ op' = NextError([op EXCEPT !.resolved = @ + 1])
            ELSE /\ UNCHANGED processing_errors
                 /\ op' = NextError(op)
    /\ UNCHANGED <<download_entries, extracted_pdfs, storage, files, frame, budget, scraper, pure>>

\* lines 534-536: otherwise the whole entry is processed again
RetryEntry ==
    /\ op.phase = "rerun"
    /\ CurrentError.extracted_pdf_id = NoPdf
    /\ frame' = StartFrames({op.fetched[op.i][1]})
    /\ op' = [op EXCEPT !.phase = "rerun_wait"]
    /\ UNCHANGED <<download_entries, extracted_pdfs, processed_prices, processing_errors,
                   storage, files, docfiles, budget, scraper, pure>>

\* line 537
RetryEntryResolved(result) == result.success

\* lines 537-539
RetryCollect ==
    LET id == op.fetched[op.i]
        e == id[1]
    IN
    /\ op.phase = "rerun_wait"
    /\ frame[e].pc = "ret"
    /\ frame' = [frame EXCEPT ![e] = IdleFrame]
    /\ IF RetryEntryResolved(ProcessingResult(e))
       THEN /\ processing_errors' = mark_error_resolved(processing_errors, id, frame[e].total_prices)
            /\ op' = NextError([op EXCEPT !.resolved = @ + 1])
       ELSE /\ UNCHANGED processing_errors
            /\ op' = NextError(op)
    /\ UNCHANGED <<download_entries, extracted_pdfs, processed_prices, storage,
                   files, docfiles, budget, scraper, pure>>

\* ------------------------------------------------------------------------
Dates == {1, 2}
FileTypes == {"zip", "pdf", "excel"}

\* a freshly downloaded entry: pdfdir says that the storage path contains '/pdf/'
EntryRows ==
    {[file_type |-> t, pdfdir |-> p, row_date |-> 1, processed_status |-> FALSE] :
        t \in FileTypes, p \in BOOLEAN}

\* the backlog after a scraper run: n unprocessed entries, nothing extracted yet
Backlog(n) ==
    /\ download_entries \in [1..n -> {r \in EntryRows : r.pdfdir => r.file_type = "pdf"}]
    /\ extracted_pdfs = [e \in 1..n |-> <<>>]
    /\ processed_prices = [e \in 1..n |-> [k \in 0..NDocs |-> 0]]
    /\ processing_errors = [e \in 1..n |-> <<>>]
    /\ storage = {}
    /\ files = [e \in 1..n |-> UnknownFile]
    /\ docfiles = [d \in Docs |-> UnknownDoc]
    /\ frame = [e \in 1..n |-> IdleFrame]
    /\ op = IdleOp
    /\ scrape = [all_links |-> <<>>, parallel |-> FALSE]
    /\ task = <<>>
    /\ bucket = {}
    /\ parser = NoParse
    /\ call = NoCall

Init == Backlog(NEntries) /\ budget = MaxOps

\* the steps of the running _process_entry frames
FrameStep ==
    \/ \E e \in Entries : ProcessEntryBulletin(e)
    \/ \E e \in Entries : ProcessEntryPdf(e)
    \/ \E e \in Entries : ProcessEntryExcel(e)
    \/ \E e \in Entries : ExtractOpen(e)
    \/ \E e \in Entries : ExtractCheck(e)
    \/ \E e \in Entries : ExtractUpload(e)
    \/ \E e \in Entries : ExtractCreate(e)
    \/ \E e \in Entries : ZipFetch(e)
    \/ \E e \in Entries : ZipDoc(e)
    \/ \E e \in Entries : ProcessEntryLog(e)
    \/ \E e \in Entries : ProcessEntryStatus(e)

Next ==
    \/ \E parallel \in BOOLEAN : process_all_pending(parallel)
    \/ \E e \in Entries : process_entry(e)
    \/ \E d \in Dates : process_by_date(d)
    \/ \E t \in RetryFilters : retry_errors(t)
    \/ \E e \in Entries : Collect(e)
    \/ RetryIncrement
    \/ RetryPdf
    \/ RetryEntry
    \/ RetryCollect
    \/ FrameStep

Spec == Init /\ [][Next]_vars

\* one pool run over a backlog of NWorkers entries
InitPar == Backlog(NWorkers) /\ budget = MaxParCalls

NextPar ==
    \/ \E parallel \in BOOLEAN : process_all_pending(parallel)
    \/ \E e \in Entries : Collect(e)
    \/ FrameStep

SpecPar == InitPar /\ [][NextPar]_vars

\* ------------------------------------------------------------------------
\* scraping/historical.py and scraping/scraper_base.py: the download phase of
\* HistoricalScraper.run over the collected links

Urls == {1, 2}

\* FileLink.file_date is None: neither the row nor the filename gave a date
NoDate == 0

\* a FileLink as extract_links_from_page returns it: the origin URL and the
\* date taken from its table row or from its filename, if any
FileLinks == {[url |-> u, file_date |-> d] : u \in Urls, d \in Dates \cup {NoDate}}

\* HistoricalScraper.filter_links_by_date_range
filter_links_by_date_range(links, start_date, end_date) ==
    SelectSeq(links, LAMBDA link :
        /\ link.file_date # NoDate
        /\ start_date <= link.file_date
        /\ link.file_date <= end_date)

\* CurrentMonthScraper.get_current_month_links, applied to the links of the page
get_current_month_links(links) ==
    SelectSeq(links, LAMBDA link : link.file_date # NoDate)

\* backend/storage.py generate_storage_path: {y}/{m}/{d}/{category}/{filename},
\* category and filename being derived from the URL
generate_storage_path(link) == <<link.file_date, link.url>>

\* download_and_store_file, lines 697-707: the dated path, or the fallback
\* unknown_date/{file_type}/{filename}
StoragePath(link) ==
    IF link.file_date # NoDate THEN generate_storage_path(link)
    ELSE <<"unknown_date", link.url>>

\* get_download_entry_by_link
get_download_entry_by_link(url) ==
    {k \in DOMAIN download_entries : download_entries[k].download_link = url}

\* is_already_downloaded
is_already_downloaded(url) == get_download_entry_by_link(url) # {}

QueuedTask == [pc |-> "queued", status |-> "none"]

Running == {i \in DOMAIN task : task[i].pc \notin {"queued", "done"}}

\* the executor takes the submitted links in order, at most max_threads at a
\* time; the sequential loops take one. The historical run calls
\* download_link_threadsafe, the current-month run download_and_store_file
DlStart(i) ==
    /\ task[i].pc = "queued"
    /\ \A j \in 1..(i - 1) : task[j].pc # "queued"
    /\ Cardinality(Running) < PoolWidth(scrape.parallel, Len(scrape.all_links))
    /\ task' = [task EXCEPT
            ![i].pc = IF scrape.kind = "historical" THEN "check" ELSE "recheck"]
    /\ UNCHANGED <<download_entries, extracted_pdfs, processed_prices, processing_errors,
                   storage, files, docfiles, frame, op, budget, scrape, bucket, pure>>

\* download_link_threadsafe, lines 154-155
DlCheck(i) ==
    /\ task[i].pc = "check"
    /\ task' = [task EXCEPT ![i] =
            IF is_already_downloaded(scrape.all_links[i].url)
            THEN [pc |-> "done", status |-> "skipped"]
            ELSE [pc |-> "recheck", status |-> "none"]]
    /\ UNCHANGED <<download_entries, extracted_pdfs, processed_prices, processing_errors,
                   storage, files, docfiles, frame, op, budget, scrape, bucket, pure>>

\* download_and_store_file, lines 664-693: the second existence check, the
\* date_parse_error of a link without a date, then the HTTP download, which
\* may fail. A None result counts as failed in the historical run; the
\* current-month run asks is_already_downloaded again (current_month.py 121)
DlRecheck(i) ==
    LET link == scrape.all_links[i]
        known == is_already_downloaded(link.url)
        undated == IF link.file_date = NoDate
                   THEN <<[url |-> link.url, error_type |-> "date_parse_error"]>>
                   ELSE <<>>
    IN
    /\ task[i].pc = "recheck"
    /\ \E fetched \in BOOLEAN :
         /\ task' = [task EXCEPT ![i] =
                IF known
                THEN [pc |-> "done",
                      status |-> IF scrape.kind = "current" THEN "skipped" ELSE "failed"]
                ELSE IF ~fetched THEN [pc |-> "done", status |-> "failed"]
                ELSE [pc |-> "upload", status |-> "none"]]
         /\ scrape' = [scrape EXCEPT !.download_errors =
                IF known THEN @
                ELSE IF ~fetched
                THEN @ \o undated \o <<[url |-> link.url, error_type |-> "http_error"]>>
                ELSE @ \o undated]
    /\ UNCHANGED <<download_entries, extracted_pdfs, processed_prices, processing_errors,
                   storage, files, docfiles, frame, op, budget, bucket, pure>>

\* lines 695-737: upload_file to the storage path; an existing object is a
\* conflict, and any failure is logged and ends the download without an entry
DlUpload(i) ==
    LET link == scrape.all_links[i]
        path == StoragePath(link)
    IN
    /\ task[i].pc = "upload"
    /\ \E uploaded \in (IF path \in bucket THEN {FALSE} ELSE BOOLEAN) :
         /\ bucket' = IF uploaded THEN bucket \cup {path} ELSE bucket
         /\ task' = [task EXCEPT ![i] =
                IF uploaded THEN [pc |-> "create", status |-> "none"]
                ELSE [pc |-> "done",
                      status |-> IF scrape.kind = "current" /\ is_already_downloaded(link.url)
                                 THEN "skipped" ELSE "failed"]]
         /\ scrape' = [scrape EXCEPT !.download_errors =
                IF uploaded THEN @
                ELSE Append(@, [url |-> link.url, error_type |-> "upload_error"])]
    /\ UNCHANGED <<download_entries, extracted_pdfs, processed_prices, processing_errors,
                   storage, files, docfiles, frame, op, budget, pure>>

\* lines 739-763: create_download_entry; a failed insert is logged
DlCreate(i) ==
    LET link == scrape.all_links[i]
        row == [download_link |-> link.url, storage_path |-> StoragePath(link),
                row_date |-> link.file_date, processed_status |-> FALSE]
    IN
    /\ task[i].pc = "create"
    /\ \E created \in {InsertAccepted(download_entries, row), FALSE} :
         /\ download_entries' = IF created THEN Append(download_entries, row)
                                ELSE download_entries
         /\ task' = [task EXCEPT ![i] =
                [pc |-> "done",
                 status |-> IF created THEN "downloaded"
                            ELSE IF scrape.kind = "current" /\ is_already_downloaded(link.url)
                            THEN "skipped" ELSE "failed"]]
         /\ scrape' = [scrape EXCEPT !.download_errors =
                IF created THEN @
                ELSE Append(@, [url |-> link.url, error_type |-> "database_error"])]
    /\ UNCHANGED <<extracted_pdfs, processed_prices, processing_errors,
                   storage, files, docfiles, frame, op, budget, bucket, pure>>

\* run(): the links of the page (found) are collected and filtered into
\* all_links, nothing is downloaded yet. The current-month run keeps the dated
\* links and downloads them one by one; the historical run keeps the links of
\* its date range
InitDL ==
    /\ download_entries = <<>>
    /\ extracted_pdfs = <<>>
    /\ processed_prices = <<>>
    /\ processing_errors = <<>>
    /\ storage = {}
    /\ files = <<>>
    /\ docfiles = [d \in Docs |-> UnknownDoc]
    /\ frame = <<>>
    /\ op = IdleOp
    /\ budget = 0
    /\ \E found \in [1..NLinks -> FileLinks] :
         \/ scrape = [kind |-> "current", found |-> found,
                      all_links |-> get_current_month_links(found),
                      parallel |-> FALSE, download_errors |-> <<>>]
         \/ \E parallel \in BOOLEAN, start_date \in Dates, end_date \in Dates :
              /\ start_date <= end_date
              /\ scrape = [kind |-> "historical", found |-> found,
                           all_links |-> filter_links_by_date_range(found, start_date, end_date),
                           parallel |-> parallel, download_errors |-> <<>>]
    /\ task = [i \in DOMAIN scrape.all_links |-> QueuedTask]
    /\ bucket = {}
    /\ parser = NoParse
    /\ call = NoCall

NextDL ==
    \/ \E i \in DOMAIN task : DlStart(i)
    \/ \E i \in DOMAIN task : DlCheck(i)
    \/ \E i \in DOMAIN task : DlRecheck(i)
    \/ \E i \in DOMAIN task : DlUpload(i)
    \/ \E i \in DOMAIN task : DlCreate(i)

SpecDL == InitDL /\ [][NextDL]_vars

TypeOK ==
    /\ \A e \in Entries : frame[e].pc \in {"idle", "begin", "x_check", "x_upload", "x_create",
                                            "fetch", "docs", "log", "status", "ret"}
    /\ op.phase \in {"idle", "wait", "inc", "rerun", "rerun_wait", "done"}
    /\ storage \subseteq Docs
    /\ budget \in 0..(IF MaxOps > MaxParCalls THEN MaxOps ELSE MaxParCalls)

\* ------------------------------------------------------------------------
\* Python str values are sequences of one-character strings, so that the
\* parsers' conversions act on the characters they read.

Digits == <<"0", "1", "2", "3", "4", "5", "6", "7", "8", "9">>
Whitespace == {" ", "\n"}

\* the index of character c in the alphabet abc, 0 if it is not in it
IndexIn(abc, c) == IF \E k \in DOMAIN abc : abc[k] = c
                   THEN CHOOSE k \in DOMAIN abc : abc[k] = c ELSE 0

\* str.upper (to_upper) and str.lower
Case(s, to_upper) ==
    LET lowers == <<"a", "b", "c", "d", "e", "f", "g", "h", "i", "j", "k", "l", "m", "n", "o", "p", "q", "r", "s", "t", "u", "v", "w", "x", "y", "z">>
        uppers == <<"A", "B", "C", "D", "E", "F", "G", "H", "I", "J", "K", "L", "M", "N", "O", "P", "Q", "R", "S", "T", "U", "V", "W", "X", "Y", "Z">>
        from == IF to_upper THEN lowers ELSE uppers
        to == IF to_upper THEN uppers ELSE lowers
    IN [k \in DOMAIN s |-> IF IndexIn(from, s[k]) > 0 THEN to[IndexIn(from, s[k])] ELSE s[k]]

\* str.strip
strip(s) ==
    LET ink == {k \in DOMAIN s : s[k] \notin Whitespace} IN
    IF ink = {} THEN <<>>
    ELSE SubSeq(s, CHOOSE k \in ink : \A j \in ink : k <= j,
                   CHOOSE k \in ink : \A j \in ink : j <= k)

\* w in s
Contains(s, w) == \E k \in 0..(Len(s) - Len(w)) : SubSeq(s, k + 1, k + Len(w)) = w

\* s.replace(a, b) for one character a and a string b
Replace(s, a, b) ==
    LET F[k \in 0..Len(s)] ==
            IF k = 0 THEN <<>> ELSE F[k - 1] \o (IF s[k] = a THEN b ELSE <<s[k]>>)
    IN F[Len(s)]

\* s.isdigit(), and int(s) of such a string
isdigit(s) == s # <<>> /\ \A k \in DOMAIN s : IndexIn(Digits, s[k]) > 0
int(s) ==
    LET F[k \in 0..Len(s)] ==
            IF k = 0 THEN 0 ELSE 10 * F[k - 1] + (IndexIn(Digits, s[k]) - 1)
    IN F[Len(s)]

\* a float is the fraction num / den in lowest decimal terms; None is NoFloat
NoFloat == [num |-> 0, den |-> 0]

\* float(s) for a string of digits, '.', '+', '-' and other characters: the
\* value, or NoFloat where float() raises ValueError. The strings of the model
\* hold no exponent, underscore, 'inf' or 'nan'.
float(s) ==
    LET signed == s # <<>> /\ s[1] \in {"+", "-"}
        body == IF signed THEN Tail(s) ELSE s
        dots == {k \in DOMAIN body : body[k] = "."}
        p == IF dots = {} THEN Len(body) + 1 ELSE CHOOSE k \in dots : TRUE
        digs == SubSeq(body, 1, p - 1) \o SubSeq(body, p + 1, Len(body))
        num == (IF signed /\ s[1] = "-" THEN -1 ELSE 1) * int(digs)
        places == IF dots = {} THEN 0 ELSE Len(body) - p
        zeros == {k \in 0..places : num % (10^k) = 0}
        z == CHOOSE k \in zeros : \A j \in zeros : j <= k
    IN IF Cardinality(dots) <= 1 /\ isdigit(digs)
       THEN [num |-> num \div (10^z), den |-> 10^(places - z)]
       ELSE NoFloat

\* ------------------------------------------------------------------------
\* processing/parser_base.py

NotAvailable == <<"n", ".", "d", ".">>

\* a parse_price that reads the dot as the decimal point
parse_price_decimal_dot(price_str) ==
    LET t == strip(price_str)
        v == float(Replace(t, ",", <<".">>))
    IN IF t = <<>> \/ Case(t, FALSE) = NotAvailable \/ t = <<"0">> THEN NoFloat
       ELSE IF v.num > 0 THEN v ELSE NoFloat

\* parse_price for a string cell: dots are thousands separators, the comma is
\* the decimal separator; None for an empty, 'n.d.', '0', unparsable or
\* non-positive value
parse_price(price_str) ==
    LET t == strip(price_str)
        v == float(Replace(Replace(t, ".", <<>>), ",", <<".">>))
    IN IF t = <<>> \/ Case(t, FALSE) = NotAvailable \/ t = <<"0">> THEN NoFloat
       ELSE IF v.num > 0 THEN v ELSE NoFloat

\* row_has_price_data(row, price_col_start = 3)
row_has_price_data(row) ==
    /\ Len(row) > 3
    /\ \E k \in 4..Len(row) :
        LET cell_str == strip(row[k])
            cleaned == Replace(Replace(cell_str, ".", <<>>), ",", <<>>)
        IN /\ cell_str # <<>>
           /\ Case(cell_str, FALSE) # NotAvailable
           /\ isdigit(cleaned)
           /\ int(cleaned) > 0

\* is_header_row; the keywords 'MINIMO', 'MAXIMO' and 'PRESENTACION' are written
\* with an accented letter in the source and match no cell of the model's
\* alphabet
is_header_row(row) ==
    LET header_keywords == {<<"P", "R", "E", "C", "I", "O", "S">>, <<"P", "R", "O", "D", "U", "C", "T", "O">>, <<"P", "A", "G", "I", "N", "A">>, <<"R", "O", "N", "D", "A">>} IN
    /\ row # <<>>
    /\ row[1] # <<>>
    /\ \E kw \in header_keywords : Contains(Case(strip(row[1]), TRUE), kw)

\* clean_text: ' '.join(text.split())
clean_text(text) ==
    LET F[k \in 0..Len(text)] ==
            IF k = 0 THEN <<>>
            ELSE IF text[k] \notin Whitespace THEN F[k - 1] \o <<text[k]>>
            ELSE IF F[k - 1] # <<>> /\ F[k - 1][Len(F[k - 1])] # " "
                 THEN F[k - 1] \o <<" ">> ELSE F[k - 1]
    IN strip(F[Len(text)])

\* ------------------------------------------------------------------------
\* processing/pdf_parser.py

\* _detect_rounds(rows): the first row that names a round decides
detect_rounds(rows) ==
    LET F[k \in 0..Len(rows)] ==
            IF k = 0 THEN 1
            ELSE IF F[k - 1] # 1 THEN F[k - 1]
            ELSE LET cells == SelectSeq(rows[k], LAMBDA c : c # <<>>)
                     G[j \in 0..Len(cells)] ==
                         IF j = 0 THEN <<>>
                         ELSE IF j = 1 THEN cells[1] ELSE G[j - 1] \o <<" ">> \o cells[j]
                     row_text == G[Len(cells)]
                 IN IF Contains(row_text, <<"R", "o", "n", "d", "a", " ", "3">>) THEN 3
                    ELSE IF Contains(row_text, <<"R", "o", "n", "d", "a", " ", "2">>) THEN 2 ELSE 1
    IN F[Len(rows)]

\* _extract_prices_from_row: the records of one product row
extract_prices_from_row(row, category, subcategory, num_rounds) ==
    LET rec(round, min_price, max_price) ==
            [category |-> category, subcategory |-> subcategory,
             product |-> clean_text(row[1]),
             presentation |-> IF Len(row) > 1 THEN clean_text(row[2]) ELSE <<>>,
             units |-> IF Len(row) > 2 THEN clean_text(row[3]) ELSE <<>>,
             round |-> round, min_price |-> min_price, max_price |-> max_price]
        min1 == parse_price(row[4])
        max1 == parse_price(row[5])
        min2 == parse_price(row[6])
        max2 == parse_price(row[7])
    IN (IF Len(row) >= 5 /\ (min1 # NoFloat \/ max1 # NoFloat)
        THEN <<rec(1, min1, max1)>> ELSE <<>>)
       \o
       (IF Len(row) >= 7 /\ num_rounds >= 2
           /\ min2 # NoFloat /\ max2 # NoFloat /\ (min2.num > 0 \/ max2.num > 0)
        THEN <<rec(2, min2, max2)>> ELSE <<>>)

\* a resolution that pops the category first and the subcategory second
ResolveSwapped(stack, category, subcategory) ==
    IF Len(stack) >= 2
    THEN [category |-> stack[Len(stack)], subcategory |-> stack[Len(stack) - 1],
          unused |-> SubSeq(stack, 1, Len(stack) - 2)]
    ELSE IF Len(stack) = 1
    THEN [category |-> stack[1], subcategory |-> subcategory, unused |-> <<>>]
    ELSE [category |-> category, subcategory |-> subcategory, unused |-> <<>>]

\* a resolution that takes the two oldest headers of the stack
ResolveOldest(stack, category, subcategory) ==
    IF Len(stack) >= 2
    THEN [category |-> stack[1], subcategory |-> stack[2], unused |-> SubSeq(stack, 3, Len(stack))]
    ELSE IF Len(stack) = 1
    THEN [category |-> category, subcategory |-> stack[1], unused |-> <<>>]
    ELSE [category |-> category, subcategory |-> subcategory, unused |-> <<>>]

\* lines 132-149: resolve the header stack in front of a product row; the top
\* of the stack is its last element
ResolveStack(stack, category, subcategory) ==
    IF Len(stack) >= 2
    THEN [category |-> stack[Len(stack) - 1], subcategory |-> stack[Len(stack)],
          unused |-> SubSeq(stack, 1, Len(stack) - 2)]
    ELSE IF Len(stack) = 1
    THEN [category |-> category, subcategory |-> stack[1], unused |-> <<>>]
    ELSE [category |-> category, subcategory |-> subcategory, unused |-> <<>>]

\* a resolution that pops the pair and leaves the other headers on the stack
PopPair(stack) == IF Len(stack) >= 2 THEN SubSeq(stack, 1, Len(stack) - 2) ELSE <<>>

\* lines 132-148: the header stack after the pops and the clear
PopResolved(stack) ==
    IF Len(stack) >= 2
    THEN IF SubSeq(stack, 1, Len(stack) - 2) # <<>> THEN <<>>
         ELSE SubSeq(stack, 1, Len(stack) - 2)
    ELSE IF Len(stack) = 1 THEN SubSeq(stack, 1, 0)
    ELSE stack

\* a parser that emits the records of a row whatever its category is
CategoryKnownAlways(category) == TRUE

\* line 152, and excel_parser.py lines 154 and 293: the missing-category test
CategoryKnown(category) == category # <<>>

\* a ProcessingError of a parser; items are the headers left on the stack,
\* product and city the row_data
ParseError(error_type, items, product, city) ==
    [error_type |-> error_type, items |-> items, product |-> product, city |-> city]

\* what the row loop read last: the kind of the row and the parser's state in
\* front of it
Snapshot(p, row_kind) ==
    [row_kind |-> row_kind, header_stack |-> p.header_stack,
     current_category |-> p.current_category,
     current_subcategory |-> p.current_subcategory,
     prices |-> Len(p.prices), errors |-> Len(p.errors)]

\* a document handed to a parser, nothing read yet
NewParse(kind, file) ==
    [kind |-> kind, pc |-> "open", file |-> file, i |-> 1, num_rounds |-> 1,
     header_stack |-> <<>>, current_category |-> <<>>, current_subcategory |-> <<>>,
     prices |-> <<>>, errors |-> <<>>,
     last |-> [row_kind |-> "none", header_stack |-> <<>>, current_category |-> <<>>,
               current_subcategory |-> <<>>, prices |-> 0, errors |-> 0]]

\* PDFParser.parse, lines 80-116 and 205-213: the tables of all pages are
\* collected and the rounds detected in the first ten rows; a file pdfplumber
\* cannot read is one corrupted_pdf error
PdfOpen ==
    /\ parser.kind = "pdf" /\ parser.pc = "open"
    /\ parser' =
         IF parser.file.readable
         THEN [parser EXCEPT !.pc = "rows",
                             !.num_rounds = detect_rounds(Prefix(parser.file.all_rows, 10))]
         ELSE [parser EXCEPT !.pc = "end",
                             !.errors = <<ParseError("corrupted_pdf", <<>>, <<>>, <<>>)>>]
    /\ UNCHANGED <<orchestrator, scraper, call>>

\* lines 119-192: one iteration of the row loop. _extract_prices_from_row
\* raises nothing on rows of strings, so no row_parse_error arises
PdfRow ==
    LET p == parser
        row == p.file.all_rows[p.i]
        first_cell == strip(row[1])
        r == ResolveStack(p.header_stack, p.current_category, p.current_subcategory)
        unused == IF r.unused # <<>>
                  THEN <<ParseError("unused_stack_items", r.unused, <<>>, <<>>)>> ELSE <<>>
        header_text == clean_text(first_cell)
    IN
    /\ p.kind = "pdf" /\ p.pc = "rows" /\ p.i <= Len(p.file.all_rows)
    /\ parser' =
         IF row = <<>> \/ row[1] = <<>> \/ is_header_row(row) \/ first_cell = <<>>
         THEN [p EXCEPT !.i = @ + 1, !.last = Snapshot(p, "skipped")]
         ELSE IF row_has_price_data(row)
         THEN [p EXCEPT
                 !.i = @ + 1, !.last = Snapshot(p, "product"),
                 !.header_stack = PopResolved(p.header_stack),
                 !.current_category = r.category,
                 !.current_subcategory = r.subcategory,
                 !.errors = @ \o unused \o
                     (IF CategoryKnown(r.category) THEN <<>>
                      ELSE <<ParseError("missing_category", <<>>, first_cell, <<>>)>>),
                 !.prices = @ \o
                     (IF CategoryKnown(r.category)
                      THEN extract_prices_from_row(row, r.category, r.subcategory, p.num_rounds)
                      ELSE <<>>)]
         ELSE [p EXCEPT
                 !.i = @ + 1, !.last = Snapshot(p, "header"),
                 !.header_stack = IF header_text # <<>> THEN Append(@, header_text) ELSE @]
    /\ UNCHANGED <<orchestrator, scraper, call>>

\* lines 194-243: the headers left on the stack after the last row, then the
\* checks of the header fields, and the result is returned
PdfReturn ==
    /\ parser.kind = "pdf"
    /\ \/ parser.pc = "end"
       \/ parser.pc = "rows" /\ parser.i > Len(parser.file.all_rows)
    /\ parser' = [parser EXCEPT
            !.pc = "returned",
            !.errors = @
                \o (IF parser.header_stack # <<>>
                    THEN <<ParseError("unused_stack_items", parser.header_stack, <<>>, <<>>)>>
                    ELSE <<>>)
                \o (IF parser.file.city = <<>> /\ parser.prices # <<>>
                    THEN <<ParseError("missing_location", <<>>, <<>>, <<>>)>> ELSE <<>>)
                \o (IF parser.file.date_str = <<>> /\ parser.prices # <<>>
                    THEN <<ParseError("missing_date", <<>>, <<>>, <<>>)>> ELSE <<>>)]
    /\ UNCHANGED <<orchestrator, scraper, call>>

\* ------------------------------------------------------------------------
\* processing/excel_parser.py. A sheet is rectangular; the model holds its data
\* rows (from data_start_row on) and the place columns cities_info that the
\* header search found, as [col, city] in column order.

\* _is_category_row_xls / _is_category_row_xlsx: cells 1..4 are all empty
is_category_row(kind, row) ==
    /\ kind = "xlsx" => Len(row) >= 2
    /\ \A k \in 2..(IF Len(row) < 5 THEN Len(row) ELSE 5) : row[k] = <<>>

\* lines 143 and 276-283: empty rows and footnotes
IsSkippedRow(kind, row) ==
    LET first_cell == strip(row[1]) IN
    \/ first_cell = <<>>
    \/ SubSeq(first_cell, 1, 1) = <<"*">>
    \/ SubSeq(first_cell, 1, 4) = NotAvailable
    \/ kind = "xls" /\ Contains(first_cell, <<"V", "a", "r", "%">>)

\* lines 94-134 and 229-268, with ExcelParser.parse, lines 71-92: open the
\* workbook and find the place columns. _parse_xlsx catches every failure as
\* an excel_parse_error. _parse_xls opens the workbook outside its try block
\* (lines 101-104): the exception leaves parse() unless its message names the
\* other format, in which case _parse_xlsx is tried.
ExcelOpen ==
    /\ parser.kind \in {"xls", "xlsx"} /\ parser.pc = "open"
    /\ parser' =
         IF parser.file.state = "ok"
         THEN IF parser.file.cities_info = <<>>
              THEN [parser EXCEPT !.pc = "returned",
                        !.errors = <<ParseError("invalid_city_headers", <<>>, <<>>, <<>>)>>]
              ELSE [parser EXCEPT !.pc = "rows"]
         ELSE IF parser.kind = "xls" /\ parser.file.state = "corrupt"
              THEN [parser EXCEPT !.pc = "raised"]
              ELSE [parser EXCEPT !.pc = "returned",
                        !.errors = <<ParseError("excel_parse_error", <<>>, <<>>, <<>>)>>]
    /\ UNCHANGED <<orchestrator, scraper, call>>

\* lines 139-201 and 274-343: one iteration of the row loop. The
\* non_numeric_price error is appended in the except branch of the price loop
\* only (lines 193-201, 335-343); reading a cell of a rectangular sheet and
\* parse_price raise nothing, so the loop adds a record or nothing.
ExcelRow ==
    LET p == parser
        row == p.file.rows[p.i]
        product == strip(row[1])
        cols == p.file.cities_info
        record(city, price) ==
            [category |-> p.current_category, subcategory |-> <<>>, product |-> product,
             presentation |-> <<"K", "i", "l", "o", "g", "r", "a", "m", "o">>, units |-> <<"1", " ", "K", "i", "l", "o", "g", "r", "a", "m", "o">>,
             round |-> 1, min_price |-> price, max_price |-> price, city |-> city]
        F[k \in 0..Len(cols)] ==
            IF k = 0 THEN <<>>
            ELSE LET price_val == row[cols[k].col] IN
                 IF price_val = NotAvailable \/ price_val = <<>>
                    \/ parse_price(price_val) = NoFloat
                 THEN F[k - 1]
                 ELSE Append(F[k - 1], record(cols[k].city, parse_price(price_val)))
    IN
    /\ p.kind \in {"xls", "xlsx"} /\ p.pc = "rows" /\ p.i <= Len(p.file.rows)
    /\ parser' =
         IF IsSkippedRow(p.kind, row)
         THEN [p EXCEPT !.i = @ + 1, !.last = Snapshot(p, "skipped")]
         ELSE IF is_category_row(p.kind, row)
         THEN [p EXCEPT !.i = @ + 1, !.last = Snapshot(p, "header"),
                        !.current_category = product]
         ELSE IF ~CategoryKnown(p.current_category)
         THEN [p EXCEPT !.i = @ + 1, !.last = Snapshot(p, "product"),
                        !.errors = Append(@, ParseError("missing_category", <<>>, product, <<>>))]
         ELSE [p EXCEPT !.i = @ + 1, !.last = Snapshot(p, "product"),
                        !.prices = @ \o F[Len(cols)]]
    /\ UNCHANGED <<orchestrator, scraper, call>>

\* lines 212-227 and 356-362: the result is returned
ExcelReturn ==
    /\ parser.kind \in {"xls", "xlsx"} /\ parser.pc = "rows" /\ parser.i > Len(parser.file.rows)
    /\ parser' = [parser EXCEPT
            !.pc = "returned",
            !.errors = @ \o (IF parser.kind = "xls" /\ ~parser.file.row_date /\ parser.prices # <<>>
                             THEN <<ParseError("missing_date", <<>>, <<>>, <<>>)>> ELSE <<>>)]
    /\ UNCHANGED <<orchestrator, scraper, call>>

\* ------------------------------------------------------------------------
\* the table extractor on one document

\* the rows of the tables of a PDF: category and subcategory headers, the
\* column header naming the rounds, a product row with one round and one
\* with two
PdfHeaderRows == {<<<<"F", "r", "u", "t", "a", "s">>>>, <<<<"V", "e", "r", "d", "u", "r", "a", "s">>>>, <<<<"R", "a", "i", "c", "e", "s", " ", "y", "\n", "t", "u", "b", "e", "r", "c", "u", "l", "o", "s">>>>}
PdfRowChoices ==
    PdfHeaderRows \cup
    {<<<<"P", "r", "o", "d", "u", "c", "t", "o">>, <<"P", "r", "e", "s", "e", "n", "t", "a", "c", "i", "o", "n">>, <<"U", "n", "i", "d", "a", "d">>, <<"R", "o", "n", "d", "a", " ", "1">>, <<>>, <<"R", "o", "n", "d", "a", " ", "2">>, <<>>>>,
     <<<<"P", "a", "p", "a">>, <<>>, <<>>, <<"1", ".", "2", "0", "0">>, <<"1", ".", "5", "0", "0">>>>,
     <<<<"Y", "u", "c", "a">>, <<"B", "u", "l", "t", "o">>, <<"5", "0", " ", "K", "g">>, <<"8", "0", "0">>, <<"n", ".", "d", ".">>, <<"9", "0", "0">>, <<"1", ".", "0", "0", "0">>>>}

\* the data rows of a sheet with two place columns: a category row, a
\* footnote, and product rows over the cells '', 'n.d.', '1.200' and '-'
SheetRowChoices ==
    {<<<<"F", "r", "u", "t", "a", "s">>, <<>>, <<>>>>, <<<<"*", " ", "n", "o", "t", "a">>, <<>>, <<>>>>} \cup
    {<<<<"P", "a", "p", "a">>, a, b>> : a, b \in {<<>>, NotAvailable, <<"1", ".", "2", "0", "0">>, <<"-">>}}

\* no entry, no link: only the pure components run
Offline ==
    /\ download_entries = <<>>
    /\ extracted_pdfs = <<>>
    /\ processed_prices = <<>>
    /\ processing_errors = <<>>
    /\ storage = {}
    /\ files = <<>>
    /\ docfiles = [d \in Docs |-> UnknownDoc]
    /\ frame = <<>>
    /\ op = IdleOp
    /\ budget = 0
    /\ scrape = [all_links |-> <<>>, parallel |-> FALSE]
    /\ task = <<>>
    /\ bucket = {}

\* one document is handed to its parser. A PDF is unreadable, or holds tables,
\* with the city and the date that _extract_header_info found on the first
\* page (both or none). A spreadsheet is one that no reader opens (of an
\* unsupported format, or corrupt), or holds data rows, with the place columns
\* that the header search found and with or without a row_date of the scraper.
InitParse ==
    /\ Offline
    /\ call = NoCall
    /\ \/ parser = NewParse("pdf", [readable |-> FALSE, city |-> <<>>, date_str |-> <<>>,
                                    all_rows |-> <<>>])
       \/ \E found \in BOOLEAN, n \in 0..MaxPdfRows :
          \E all_rows \in [1..n -> PdfRowChoices] :
             parser = NewParse("pdf",
                        [readable |-> TRUE,
                         city |-> IF found THEN <<"C", "a", "l", "i">> ELSE <<>>,
                         date_str |-> IF found THEN <<"2", "0", "2", "1", "-", "0", "3", "-", "1", "5">> ELSE <<>>,
                         all_rows |-> all_rows])
       \/ \E kind \in {"xls", "xlsx"}, state \in {"unsupported", "corrupt"} :
             parser = NewParse(kind, [state |-> state, cities_info |-> <<>>,
                                      row_date |-> TRUE, rows |-> <<>>])
       \/ \E kind \in {"xls", "xlsx"}, mapped \in BOOLEAN, row_date \in BOOLEAN,
             n \in 0..MaxSheetRows :
          \E rows \in [1..n -> SheetRowChoices] :
             parser = NewParse(kind,
                        [state |-> "ok",
                         cities_info |-> IF mapped
                                         THEN <<[col |-> 2, city |-> <<"B", "o", "g", "o", "t", "a">>],
                                                [col |-> 3, city |-> <<"C", "a", "l", "i">>]>>
                                         ELSE <<>>,
                         row_date |-> row_date, rows |-> rows])

NextParse ==
    \/ PdfOpen
    \/ PdfRow
    \/ PdfReturn
    \/ ExcelOpen
    \/ ExcelRow
    \/ ExcelReturn

SpecParse == InitParse /\ [][NextParse]_vars

\* ------------------------------------------------------------------------
\* date texts: processing/parser_base.py, scraping/scraper_base.py, config.py.
\* A date is <<year, month, day>>, None is <<>>. The words of the model's texts
\* hold letters only or digits only.

\* text.split(): the maximal runs of characters that are not whitespace
Words(text) ==
    LET gap(i) == i < 1 \/ i > Len(text) \/ text[i] \in Whitespace
        starts == {i \in DOMAIN text : ~gap(i) /\ gap(i - 1)}
        start(n) == CHOOSE i \in starts : Cardinality({j \in starts : j < i}) = n - 1
        end(i) == CHOOSE j \in i..Len(text) : gap(j + 1) /\ \A m \in i..j : ~gap(m)
    IN [n \in 1..Cardinality(starts) |-> SubSeq(text, start(n), end(start(n)))]

\* config.py MONTHS_ES, and the keys of the months table of parse_spanish_date
MONTHS_ES ==
    <<<<"e", "n", "e", "r", "o">>, <<"f", "e", "b", "r", "e", "r", "o">>, <<"m", "a", "r", "z", "o">>, <<"a", "b", "r", "i", "l">>, <<"m", "a", "y", "o">>, <<"j", "u", "n", "i", "o">>, <<"j", "u", "l", "i", "o">>,
      <<"a", "g", "o", "s", "t", "o">>, <<"s", "e", "p", "t", "i", "e", "m", "b", "r", "e">>, <<"o", "c", "t", "u", "b", "r", "e">>, <<"n", "o", "v", "i", "e", "m", "b", "r", "e">>, <<"d", "i", "c", "i", "e", "m", "b", "r", "e">>>>

\* re.search of '(\d{1,2})\s+de\s+(<month word>)(\s+de)?\s+(\d{4})', or of its
\* first two groups when with_year is false: the groups of the leftmost
\* match, or <<>>. In parse_spanish_date the month is \w+, the second 'de' is
\* required and case is ignored; in parse_date_from_text the text is lowered
\* and the month is [a-z]+, which the caller tests. A value that is used
\* more than once is bound to a name by a one-element set:
\* CHOOSE x \in {e(v) : v \in {d}} : TRUE is e(d).
MatchDate(text, with_year, de_optional) ==
    LET de(w, k) == k <= Len(w) /\ Case(w[k], FALSE) = <<"d", "e">>
        word(w, k) == k <= Len(w) /\ \A j \in DOMAIN w[k] :
            \/ IndexIn(Digits, w[k][j]) > 0
            \/ IndexIn(<<"a", "b", "c", "d", "e", "f", "g", "h", "i", "j", "k", "l", "m", "n", "o", "p", "q", "r", "s", "t", "u", "v", "w", "x", "y", "z">>, Case(<<w[k][j]>>, FALSE)[1]) > 0
        year_at(w, k) == k <= Len(w) /\ Len(w[k]) >= 4 /\ isdigit(SubSeq(w[k], 1, 4))
        year(w, k) == IF de(w, k + 3) /\ year_at(w, k + 4) THEN k + 4
                      ELSE IF de_optional /\ year_at(w, k + 3) THEN k + 3 ELSE 0
        hit(w, k) == /\ isdigit(SubSeq(w[k], Len(w[k]), Len(w[k])))
                     /\ de(w, k + 1) /\ word(w, k + 2)
                     /\ with_year => year(w, k) > 0
        first(w) == {k \in DOMAIN w : hit(w, k) /\ \A j \in 1..(k - 1) : ~hit(w, j)}
        day(d) == IF Len(d) >= 2 /\ isdigit(SubSeq(d, Len(d) - 1, Len(d)))
                  THEN SubSeq(d, Len(d) - 1, Len(d)) ELSE SubSeq(d, Len(d), Len(d))
        groups(w, k) == <<day(w[k]), w[k + 2],
                          IF with_year THEN SubSeq(w[year(w, k)], 1, 4) ELSE <<>>>>
    IN CHOOSE g \in {IF first(w) = {} THEN <<>> ELSE groups(w, CHOOSE k \in first(w) : TRUE) :
                        w \in {Words(text)}} : TRUE

\* parse_spanish_date: 'YYYY-MM-DD', with months.get(name, '01'); None is <<>>
parse_spanish_date(date_str) ==
    LET month(name) == IF IndexIn(MONTHS_ES, Case(name, FALSE)) = 0 THEN 1
                       ELSE IndexIn(MONTHS_ES, Case(name, FALSE))
        zfill(day) == (IF Len(day) = 1 THEN <<"0">> ELSE <<>>) \o day
        format(year, m, day) ==
            year \o <<"-">> \o <<Digits[(m \div 10) + 1], Digits[(m % 10) + 1]>>
                 \o <<"-">> \o zfill(day)
    IN CHOOSE r \in {IF g = <<>> THEN <<>> ELSE format(g[3], month(g[2]), g[1]) :
                        g \in {MatchDate(date_str, TRUE, FALSE)}} : TRUE

\* datetime(year, month, day), <<>> where it raises ValueError; also
\* datetime.strptime(date_str, '%Y-%m-%d').date() of pdf_parser.py line 100
datetime(year, month, day) ==
    LET leap == year % 4 = 0 /\ (year % 100 # 0 \/ year % 400 = 0)
        days == IF month = 2 THEN (IF leap THEN 29 ELSE 28)
                ELSE IF month \in {4, 6, 9, 11} THEN 30 ELSE 31
    IN IF year >= 1 /\ month \in 1..12 /\ day >= 1 /\ day <= days
       THEN <<year, month, day>> ELSE <<>>

\* ScraperBase.parse_date_from_text(text, default_year); no default year is 0
parse_date_from_text(text, default_year) ==
    LET letters(s) == \A j \in DOMAIN s : IndexIn(Digits, s[j]) = 0
        \* the date of the groups g, None for no match, an unknown month name
        \* or a ValueError of datetime
        dated(g, year) ==
            IF g = <<>> \/ ~letters(g[2]) \/ IndexIn(MONTHS_ES, g[2]) = 0 THEN <<>>
            ELSE datetime(year, IndexIn(MONTHS_ES, g[2]), int(g[1]))
        with_year(t) == CHOOSE d \in {dated(g, IF g = <<>> THEN 0 ELSE int(g[3])) :
                                        g \in {MatchDate(t, TRUE, TRUE)}} : TRUE
        without_year(t) == CHOOSE d \in {dated(g, default_year) :
                                        g \in {MatchDate(t, FALSE, TRUE)}} : TRUE
        or_else(d, t) == IF d # <<>> THEN d
                         ELSE IF default_year # 0 THEN without_year(t) ELSE <<>>
    IN CHOOSE r \in {IF t = <<>> THEN <<>>
                     ELSE CHOOSE x \in {or_else(d, t) : d \in {with_year(t)}} : TRUE :
                        t \in {Case(strip(text), FALSE)}} : TRUE

\* PDFParser._extract_header_info, lines 267-271, on one line of the first
\* page, and parse() lines 98-102: the date_str and the parsed_date
extract_header_date(line) ==
    LET is_date_line(low) == \/ Contains(low, <<"d", "e", " ", "2", "0">>)
                             \/ Contains(low, <<"d", "e", " ", "d", "i", "c", "i", "e", "m", "b", "r", "e">>)
                             \/ Contains(low, <<"d", "e", " ", "e", "n", "e", "r", "o">>)
        strptime(s) == IF s = <<>> THEN <<>>
                       ELSE datetime(int(SubSeq(s, 1, 4)), int(SubSeq(s, 6, 7)),
                                     int(SubSeq(s, 9, 10)))
    IN CHOOSE r \in {[date_str |-> date_str, parsed_date |-> strptime(date_str)] :
                        date_str \in {IF is_date_line(Case(line, FALSE))
                                      THEN parse_spanish_date(line) ELSE <<>>}} : TRUE

\* ------------------------------------------------------------------------
\* scraping/scraper_base.py: the page of the four-column era. A table row is
\* [first_cell_text, anchors], anchors[c] being the <a href> elements of column
\* c = 1..3; an anchor is [href, in_files, file_type, url_date,
\* keyword_category], the last three being what get_file_type,
\* extract_date_from_url and get_link_category return for it.

\* _get_page_format(target_date)
get_page_format(target_date) ==
    LET ge(a, b) == \/ a[1] > b[1]
                    \/ a[1] = b[1] /\ a[2] > b[2]
                    \/ a[1] = b[1] /\ a[2] = b[2] /\ a[3] >= b[3]
    IN IF target_date = <<>> THEN "current"
       ELSE IF ge(target_date, <<2020, 3, 1>>) THEN "four_column"
       ELSE IF ge(target_date, <<2015, 12, 1>>) THEN "three_column"
       ELSE IF ge(target_date, <<2012, 8, 1>>) THEN "bullet_list"
       ELSE "simple_links"

\* the FileLinks of the file anchors of one cell
FileLinksOf(anchors, category, row_date, by_keyword) ==
    LET kept == SelectSeq(anchors, LAMBDA a : a.in_files /\ a.file_type # "none") IN
    [k \in 1..Len(kept) |->
        [url |-> kept[k].href, file_type |-> kept[k].file_type,
         file_date |-> IF row_date # <<>> THEN row_date ELSE kept[k].url_date,
         category |-> IF by_keyword THEN kept[k].keyword_category ELSE category]]

\* _extract_four_column_table: column_categories = {2: 'anexo',
\* 3: 'informes_ciudades'}, columns 0 (the day) and 1 (the bulletin) skipped
extract_four_column_table(page, target_date) ==
    LET default_year == IF target_date # <<>> THEN target_date[1] ELSE page.url_year
        of_row(row, row_date) ==
            FileLinksOf(row.anchors[2], "anexo", row_date, FALSE)
            \o FileLinksOf(row.anchors[3], "informes_ciudades", row_date, FALSE)
        F[k \in 0..Len(page.rows)] ==
            IF k = 0 THEN <<>>
            ELSE F[k - 1] \o
                 (CHOOSE links \in
                    {of_row(page.rows[k], row_date) :
                        row_date \in {parse_date_from_text(page.rows[k].first_cell_text,
                                                           default_year)}} : TRUE)
    IN F[Len(page.rows)]

\* extract_links_from_page for the formats 'four_column' and 'current': the
\* structured extraction, and when it finds no link the generic extraction
\* over every anchor of the page, with the category of get_link_category and
\* the date of extract_date_from_url (lines 586-615)
extract_links_from_page(page, target_date) ==
    LET G[k \in 0..Len(page.rows)] ==
            IF k = 0 THEN <<>>
            ELSE G[k - 1]
                 \o FileLinksOf(page.rows[k].anchors[1], "", <<>>, TRUE)
                 \o FileLinksOf(page.rows[k].anchors[2], "", <<>>, TRUE)
                 \o FileLinksOf(page.rows[k].anchors[3], "", <<>>, TRUE)
    IN CHOOSE r \in {IF links # <<>> THEN links ELSE G[Len(page.rows)] :
                        links \in {extract_four_column_table(page, target_date)}} : TRUE

\* ------------------------------------------------------------------------
\* one call of a pure function

\* parse_spanish_date(date_str)
CallParseSpanishDate ==
    /\ call.fn = "parse_spanish_date" /\ ~call.returned
    /\ call' = [call EXCEPT !.returned = TRUE, !.result = parse_spanish_date(call.text)]
    /\ UNCHANGED <<orchestrator, scraper, parser>>

\* ScraperBase.parse_date_from_text(text), default_year = None
CallParseDateFromText ==
    /\ call.fn = "parse_date_from_text" /\ ~call.returned
    /\ call' = [call EXCEPT !.returned = TRUE, !.result = parse_date_from_text(call.text, 0)]
    /\ UNCHANGED <<orchestrator, scraper, parser>>

\* PDFParser._extract_header_info on a first page that holds the date line
CallExtractHeaderInfo ==
    /\ call.fn = "_extract_header_info" /\ ~call.returned
    /\ call' = [call EXCEPT !.returned = TRUE, !.result = extract_header_date(call.text)]
    /\ UNCHANGED <<orchestrator, scraper, parser>>

\* ScraperBase.extract_links_from_page(page_url, html_content, target_date)
CallExtractLinks ==
    /\ call.fn = "extract_links_from_page" /\ ~call.returned
    /\ get_page_format(call.target_date) \in {"four_column", "current"}
    /\ call' = [call EXCEPT !.returned = TRUE,
                            !.result = extract_links_from_page(call.page, call.target_date)]
    /\ UNCHANGED <<orchestrator, scraper, parser>>

\* PDFParser.parse, line 111, then _extract_prices_from_row on a product row
CallExtractPrices ==
    /\ call.fn = "_extract_prices_from_row" /\ ~call.returned
    /\ call' = [call EXCEPT
            !.returned = TRUE,
            !.result = extract_prices_from_row(call.row, <<"T", "u", "b", "e", "r", "c", "u", "l", "o", "s">>, <<"P", "a", "p", "a", "s">>,
                                               detect_rounds(Prefix(call.all_rows, 10)))]
    /\ UNCHANGED <<orchestrator, scraper, parser>>

\* the call and its arguments. The date texts are '<day> de <month> de <year>'
\* with the names in three spellings of case, a misspelt name and a foreign
\* name. The anchors of column c of a table row are none, the file of the
\* column, or a link that is no file (under /files/ without a file type in
\* column 1, outside /files/ in columns 2 and 3); the first cell of a row is
\* a day or holds no date. The tables of the PDF hold the row that names
\* round 2 at index marker, or no such row; the product row has 5, 6 or 7 cells.
InitCall ==
    LET
        DateTexts ==
            {day \o <<" ", "d", "e", " ">> \o month \o <<" ", "d", "e", " ">> \o <<"2", "0", "2", "1">> :
                day \in {<<"5">>, <<"1", "5">>, <<"3", "1">>},
                month \in {<<"m", "a", "r", "z", "o">>, <<"M", "a", "r", "z", "o">>, <<"F", "E", "B", "R", "E", "R", "O">>, <<"d", "i", "c", "i", "e", "m", "b", "r", "e">>, <<"m", "a", "r", "z", "o", "o">>, <<"m", "a", "r", "c", "h">>}}
        AnchorChoices(c) ==
            {<<>>,
             <<[href |-> <<"nav", c>>, in_files |-> c = 1, file_type |-> "none",
                url_date |-> <<>>, keyword_category |-> "none"]>>,
             <<[href |-> <<"file", c>>, in_files |-> TRUE,
                file_type |-> <<"pdf", "excel", "zip">>[c],
                url_date |-> <<2021, 3, 14>>,
                keyword_category |-> <<"boletin", "anexo", "informes_ciudades">>[c]]>>}
        PageRowChoices ==
            {[first_cell_text |-> t, anchors |-> <<a1, a2, a3>>] :
                t \in {<<"1", "5", " ", "d", "e", " ", "m", "a", "r", "z", "o", " ", "d", "e", " ", "2", "0", "2", "1">>, <<"D", "i", "a">>},
                a1 \in AnchorChoices(1), a2 \in AnchorChoices(2), a3 \in AnchorChoices(3)}
    IN
    /\ Offline
    /\ parser = NoParse
    /\ \/ \E fn \in {"parse_spanish_date", "parse_date_from_text", "_extract_header_info"},
             text \in DateTexts :
             call = [fn |-> fn, text |-> text, returned |-> FALSE, result |-> <<>>]
       \/ \E target_date \in {<<>>, <<2020, 3, 1>>}, n \in 0..MaxPageRows :
          \E rows \in [1..n -> PageRowChoices] :
             call = [fn |-> "extract_links_from_page", target_date |-> target_date,
                     page |-> [url_year |-> 2021, rows |-> rows],
                     returned |-> FALSE, result |-> <<>>]
       \/ \E marker \in {0, 1, 10, 11}, len \in 5..7,
             c5 \in {<<>>, NotAvailable, <<"0">>, <<"9", "0", "0">>, <<"-">>},
             c6 \in {<<>>, NotAvailable, <<"0">>, <<"1", ".", "0", "0", "0">>, <<"-">>} :
             call = [fn |-> "_extract_prices_from_row",
                     all_rows |-> [k \in 1..(IF marker = 0 THEN 11 ELSE marker) |->
                                     IF k = marker
                                     THEN <<<<"P", "r", "o", "d", "u", "c", "t", "o">>, <<>>, <<>>, <<"R", "o", "n", "d", "a", " ", "1">>, <<>>, <<"R", "o", "n", "d", "a", " ", "2">>, <<>>>>
                                     ELSE <<<<"F", "r", "u", "t", "a", "s">>>>],
                     row |-> SubSeq(<<<<"P", "a", "p", "a">>, <<"B", "u", "l", "t", "o">>, <<"5", "0", " ", "K", "g">>, <<"8", "0", "0">>, <<"1", ".", "2", "0", "0">>, c5, c6>>, 1, len),
                     returned |-> FALSE, result |-> <<>>]

NextCall ==
    \/ CallParseSpanishDate
    \/ CallParseDateFromText
    \/ CallExtractHeaderInfo
    \/ CallExtractLinks
    \/ CallExtractPrices

SpecCall == InitCall /\ [][NextCall]_vars

\* ------------------------------------------------------------------------
\* backend/storage.py: the retry loops of StorageClient.upload_file and
\* StorageClient.download_file

\* a loop that would try once more
SixAttempts == 5 + 1

MAX_UPLOAD_RETRIES == 5

\* the messages that mark an error as transient
TransientMessages ==
    {<<"r", "e", "s", "o", "u", "r", "c", "e", " ", "t", "e", "m", "p", "o", "r", "a", "r", "i", "l", "y", " ", "u", "n", "a", "v", "a", "i", "l", "a", "b", "l", "e">>,
     <<"e", "r", "r", "n", "o", " ", "3", "5">>,
     <<"c", "o", "n", "n", "e", "c", "t", "i", "o", "n", " ", "r", "e", "s", "e", "t">>,
     <<"c", "o", "n", "n", "e", "c", "t", "i", "o", "n", " ", "r", "e", "f", "u", "s", "e", "d">>,
     <<"t", "i", "m", "e", "o", "u", "t">>,
     <<"t", "e", "m", "p", "o", "r", "a", "r", "i", "l", "y", " ", "u", "n", "a", "v", "a", "i", "l", "a", "b", "l", "e">>,
     <<"t", "o", "o", " ", "m", "a", "n", "y", " ", "r", "e", "q", "u", "e", "s", "t", "s">>,
     <<"r", "a", "t", "e", " ", "l", "i", "m", "i", "t">>}

\* is_transient = any(msg in error_str.lower() for msg in [...])
is_transient(error_str) ==
    \E msg \in TransientMessages : Contains(Case(error_str, FALSE), msg)

\* str(e) of the exceptions the storage client raises here
StorageErrors ==
    {<<"C", "o", "n", "n", "e", "c", "t", "i", "o", "n", " ", "r", "e", "s", "e", "t", " ", "b", "y", " ", "p", "e", "e", "r">>,
     <<"R", "e", "a", "d", " ", "T", "i", "m", "e", "o", "u", "t">>,
     <<"4", "2", "9", " ", "T", "o", "o", " ", "M", "a", "n", "y", " ", "R", "e", "q", "u", "e", "s", "t", "s">>,
     <<"D", "u", "p", "l", "i", "c", "a", "t", "e", ":", " ", "r", "e", "s", "o", "u", "r", "c", "e", " ", "a", "l", "r", "e", "a", "d", "y", " ", "e", "x", "i", "s", "t", "s">>,
     <<"O", "b", "j", "e", "c", "t", " ", "n", "o", "t", " ", "f", "o", "u", "n", "d">>}

\* the try block: one call of the storage client, which returns or raises
StorageTry ==
    /\ call.fn \in {"upload_file", "download_file"} /\ call.pc = "try"
    /\ \/ call' = [call EXCEPT
                !.calls = @ + 1,
                !.pc = "returned",
                !.result = IF call.fn = "upload_file" THEN [success |-> TRUE]
                           ELSE [data |-> TRUE]]
       \/ \E e \in StorageErrors :
            call' = [call EXCEPT
                !.calls = @ + 1,
                !.pc = "except",
                !.last_error = e,
                !.errors = Append(@, e)]
    /\ UNCHANGED <<orchestrator, scraper, parser>>

\* the except block: after a transient error the loop sleeps and goes on
\* unless this was the last attempt; otherwise it breaks and the failure
\* value is returned
StorageExcept ==
    /\ call.fn \in {"upload_file", "download_file"} /\ call.pc = "except"
    /\ call' =
        IF is_transient(call.last_error) /\ call.attempt < MAX_UPLOAD_RETRIES - 1
        THEN [call EXCEPT !.attempt = @ + 1, !.pc = "try"]
        ELSE [call EXCEPT
                !.pc = "returned",
                !.result = IF call.fn = "upload_file"
                           THEN [success |-> FALSE, error |-> call.last_error]
                           ELSE [data |-> FALSE]]
    /\ UNCHANGED <<orchestrator, scraper, parser>>

\* upload_file or download_file has been called
InitStore ==
    /\ Offline
    /\ parser = NoParse
    /\ \E fn \in {"upload_file", "download_file"} :
         call = [fn |-> fn, pc |-> "try", attempt |-> 0, calls |-> 0,
                 last_error |-> <<>>, errors |-> <<>>, result |-> [none |-> TRUE]]

NextStore ==
    \/ StorageTry
    \/ StorageExcept

\* the loop runs in the caller's thread and each client call ends
SpecStore == InitStore /\ [][NextStore]_vars /\ WF_vars(NextStore)

\* ------------------------------------------------------------------------
\* properties

\* rows of an entry's error table persisted since its running frame began
PersistedInRun(e) == Suffix(processing_errors[e], frame[e].errors_at_start)

\* rows inserted for the document at path d, over all entries
DocRows(d) == SumOver([e \in Entries |-> processed_prices[e][d]], Entries)

\* C1: across any sequence of the four entry points, the records of one stored
\* file (an entry's own file, or one extracted document) are inserted at most
\* once: the table never holds more rows of a file than the file has records.
C1_InsertedAtMostOnce ==
    /\ \A e \in Entries : processed_prices[e][0] <= files[e].recs
    /\ \A d \in Docs : DocRows(d) <= docfiles[d].recs

\* C2 as stated: a process_all_pending call that directly follows another one
\* inserts no price record at all, whatever the first call left behind.
C2_SecondCallInsertsNothing ==
    (op.name = "pap" /\ op.prev_pap) =>
        \A e \in Entries : EntryPrices(e) = op.prices_at_start[e]

\* C2 amended: a process_all_pending call that directly follows another one
\* does not fetch, and inserts no record for, any entry that was marked
\* processed when it began.
C2_SecondCallSkipsProcessed ==
    (op.name = "pap" /\ op.prev_pap) =>
        \A e \in op.processed_at_start :
            /\ e \notin Range(op.fetched)
            /\ EntryPrices(e) = op.prices_at_start[e]

C2_Witness ==
    /\ op.name = "pap" /\ op.prev_pap /\ op.phase = "done"
    /\ \E e \in op.processed_at_start : EntryPrices(e) > 0

\* C3: when _process_entry has set the processed flag, every record the
\* parsers produced in that run was inserted, or at least one error row was
\* persisted for the entry in that run.
C3_ProcessedOnlyWhenAccounted ==
    \A e \in Entries :
        frame[e].update_called =>
            \/ frame[e].produced = frame[e].total_prices
            \/ Len(PersistedInRun(e)) >= 1

\* the expansion of the archive run by frame e reported a failed upload
Blocked(e) ==
    /\ download_entries[e].file_type = "zip"
    /\ frame[e].expanded
    /\ frame[e].failed_uploads >= 1

\* C4: a run of _process_entry that returns without exception leaves the
\* processed flag alone and returns success = False when the entry is an
\* archive whose expansion reported a failed upload (so a pending entry is
\* still pending), and only in that case.
C4_BlockedArchive ==
    \A e \in Entries :
        (frame[e].pc = "ret" /\ ~frame[e].threw) =>
            /\ Blocked(e) =>
                  /\ ~frame[e].update_called
                  /\ ~frame[e].result_success
                  /\ (op.name = "pap" => ~download_entries[e].processed_status)
            /\ ~frame[e].update_called => Blocked(e)

C4_Witness ==
    \E e \in Entries :
        /\ frame[e].pc = "ret" /\ ~frame[e].threw
        /\ Blocked(e)
        /\ frame[e].total_found >= 1
        /\ op.name = "pap"

\* C5: the extracted_pdfs table holds at most one row per derived storage
\* path, also when archives are expanded by concurrent workers.
C5_OneRowPerPath ==
    \A d \in Docs : Cardinality(get_extracted_pdf_by_storage_path(d)) <= 1

\* C6: the download_entries table holds at most one row per origin URL, also
\* when download threads handle links with the same URL at the same time.
C6_OneEntryPerUrl ==
    \A u \in Urls : Cardinality(get_download_entry_by_link(u)) <= 1

\* C7: when process_all_pending has returned, every fetched entry has a
\* result, the summary's total is the number of fetched entries and equals
\* success + failed, and an entry whose processing raised has a failed result
\* and a persisted processing_failed error.
C7_ExceptionIsolated ==
    (op.name = "pap" /\ op.phase = "done") =>
        /\ {r.entry_id : r \in op.results} = Range(op.fetched)
        /\ op.summary.total = Len(op.fetched)
        /\ op.summary.total = op.summary.success + op.summary.failed
        /\ \A r \in op.results :
              r.threw =>
                /\ ~r.success
                /\ \E k \in 1..Len(processing_errors[r.entry_id]) :
                      processing_errors[r.entry_id][k].error_type = "processing_failed"

C7_Witness ==
    /\ op.name = "pap" /\ op.phase = "done"
    /\ Len(op.fetched) >= 2
    /\ \E r \in op.results : r.threw
    /\ \E r \in op.results : ~r.threw /\ r.success

\* C8: an error row is resolved only by a re-run that inserted at least one
\* price record.
C8_ResolvedOnlyWithNewRecord ==
    \A id \in Range(AllIds(processing_errors)) :
        Row(processing_errors, id).resolved => Row(processing_errors, id).rerun_prices > 0

C8_Witness ==
    \E id \in Range(AllIds(processing_errors)) :
        /\ Row(processing_errors, id).resolved
        /\ op.name = "retry" /\ op.phase = "done"

\* the unresolved error rows of the kind a retry pass was asked for
Matching(error_type) ==
    {id \in Range(AllIds(processing_errors)) :
        /\ ~Row(processing_errors, id).resolved
        /\ (error_type # "any" => Row(processing_errors, id).error_type = error_type)}

EntryNoPrices(e) ==
    LET rows == PersistedInRun(e) IN
    Cardinality({k \in 1..Len(rows) :
        rows[k].error_type = "no_prices_extracted" /\ rows[k].extracted_pdf_id = NoPdf})

\* C10: a run of _process_entry that returns without exception for a
\* non-bulletin entry has persisted exactly one entry-level
\* no_prices_extracted error if it inserted no record, and none otherwise.
C10_NoPricesLoggedOnce ==
    \A e \in Entries :
        (frame[e].pc = "ret" /\ ~frame[e].threw /\ ~frame[e].skipped) =>
            EntryNoPrices(e) = (IF frame[e].total_prices = 0 THEN 1 ELSE 0)

C10_Witness ==
    \E e \in Entries :
        /\ frame[e].pc = "ret" /\ ~frame[e].threw
        /\ download_entries[e].file_type = "zip"
        /\ frame[e].already_processed >= 1
        /\ frame[e].total_prices = 0
        /\ EntryNoPrices(e) = 1

\* C11: a run of _process_entry over a pdf entry whose storage path contains
\* '/pdf/' returns at once: the entry is marked processed, its file is never
\* downloaded or parsed, no price row and no processing error (so no
\* no_prices_extracted) is created for it, and the result reports success
\* with zero records.
C11_BulletinShortCircuit ==
    \A e \in Entries :
        (/\ download_entries[e].file_type = "pdf"
         /\ download_entries[e].pdfdir
         /\ frame[e].pc = "ret") =>
            /\ download_entries[e].processed_status
            /\ ~files[e].known
            /\ \A k \in 0..NDocs : processed_prices[e][k] = 0
            /\ processing_errors[e] = <<>>
            /\ extracted_pdfs[e] = <<>>
            /\ ~frame[e].threw
            /\ frame[e].result_success
            /\ ProcessingResult(e).prices_extracted = 0
            /\ ProcessingResult(e).errors_count = 0

C11_Witness ==
    \E e \in Entries :
        /\ download_entries[e].file_type = "pdf"
        /\ download_entries[e].pdfdir
        /\ frame[e].pc = "ret" /\ frame[e].skipped
        /\ download_entries[e].processed_status
        /\ ProcessingResult(e).success

\* the parser has just run the row loop over a product row of the given kind
\* of document
AfterProductRow(kinds) ==
    parser.kind \in kinds /\ parser.pc = "rows" /\ parser.last.row_kind = "product"

\* the records and the errors that the last row added
LastRecords == Suffix(parser.prices, parser.last.prices)
LastErrors == Suffix(parser.errors, parser.last.errors)

\* the parser holds the pair, and every record of the last row carries it
ResolvedAs(category, subcategory) ==
    /\ parser.current_category = category
    /\ parser.current_subcategory = subcategory
    /\ \A k \in DOMAIN LastRecords :
          LastRecords[k].category = category /\ LastRecords[k].subcategory = subcategory

\* C12: PDF stack resolution. A product row in front of which the stack holds
\* two headers [A, B] gets category A and subcategory B; with one header [B]
\* and a category C resolved before, it gets (C, B); with no header and a pair
\* (C, B) resolved before, it keeps (C, B).
C12_StackResolution ==
    AfterProductRow({"pdf"}) =>
        LET b == parser.last
            stack == b.header_stack
        IN /\ Len(stack) = 2 => ResolvedAs(stack[1], stack[2])
           /\ (Len(stack) = 1 /\ b.current_category # <<>>) =>
                  ResolvedAs(b.current_category, stack[1])
           /\ (Len(stack) = 0 /\ b.current_category # <<>>) =>
                  ResolvedAs(b.current_category, b.current_subcategory)

C12_Witness ==
    /\ AfterProductRow({"pdf"})
    /\ Len(parser.last.header_stack) = 1
    /\ parser.last.current_category # <<>>
    /\ LastRecords # <<>>
    /\ LastRecords[1].category = parser.last.current_category
    /\ LastRecords[1].subcategory = parser.last.header_stack[1]
    /\ parser.last.current_subcategory # parser.last.header_stack[1]

\* the unused_stack_items errors among the errors of the last row
LastUnused == SelectSeq(LastErrors, LAMBDA x : x.error_type = "unused_stack_items")

\* C13 as stated: with three pending headers A, B, C (pushed in that order) in
\* front of a product row, one unused_stack_items defect is logged, the stack
\* is cleared, the resolved pair is made of A and B, and C is discarded.
C13_ThreeHeadersKeepFirstTwo ==
    (AfterProductRow({"pdf"}) /\ Len(parser.last.header_stack) = 3) =>
        LET stack == parser.last.header_stack IN
        /\ Len(LastUnused) = 1
        /\ parser.header_stack = <<>>
        /\ {parser.current_category, parser.current_subcategory} = {stack[1], stack[2]}
        /\ LastUnused[1].items = <<stack[3]>>

\* C13, amended: with three pending headers A, B, C in front of a product row,
\* one unused_stack_items defect is logged and the stack is cleared; the
\* category is B and the subcategory is C, the two headers pushed last, and A,
\* the header pushed first, is the one discarded and named in the defect.
C13_ThreeHeadersKeepLastTwo ==
    (AfterProductRow({"pdf"}) /\ Len(parser.last.header_stack) = 3) =>
        LET stack == parser.last.header_stack IN
        /\ Len(LastUnused) = 1
        /\ parser.header_stack = <<>>
        /\ ResolvedAs(stack[2], stack[3])
        /\ LastUnused[1].items = <<stack[1]>>

C13_Witness ==
    /\ AfterProductRow({"pdf"})
    /\ Len(parser.last.header_stack) = 3
    /\ Cardinality(Range(parser.last.header_stack)) = 3
    /\ LastRecords # <<>>
    /\ LastRecords[1].category = parser.last.header_stack[2]
    /\ LastRecords[1].subcategory = parser.last.header_stack[3]

\* the rows of the scenario: the header row 'Verduras', then the product row
\* 'Papa' with the price cells '1.200' and '1.500'
ScenarioRows ==
    << <<<<"V", "e", "r", "d", "u", "r", "a", "s">>>>,
       <<<<"P", "a", "p", "a">>, <<>>, <<>>,
         <<"1", ".", "2", "0", "0">>, <<"1", ".", "5", "0", "0">>>> >>

\* the parser has returned from a readable PDF whose tables hold the rows
ReturnedFrom(rows) ==
    /\ parser.kind = "pdf" /\ parser.pc = "returned"
    /\ parser.file.readable
    /\ parser.file.all_rows = rows

\* the one record of the scenario
ScenarioRecord(category) ==
    [category |-> category,
     subcategory |-> <<"V", "e", "r", "d", "u", "r", "a", "s">>,
     product |-> <<"P", "a", "p", "a">>, presentation |-> <<>>, units |-> <<>>,
     round |-> 1, min_price |-> [num |-> 1200, den |-> 1],
     max_price |-> [num |-> 1500, den |-> 1]]

\* C14 as stated: the PDF whose rows are the header row 'Verduras' and the
\* product row ('Papa', '1.200', '1.500'), with no round-2 marker and no
\* earlier header, yields exactly one price record: subcategory 'Verduras',
\* product 'Papa', round 1, min 1200, max 1500.
C14_ScenarioYieldsOneRecord ==
    ReturnedFrom(ScenarioRows) =>
        /\ Len(parser.prices) = 1
        /\ parser.prices[1].subcategory = ScenarioRecord(<<>>).subcategory
        /\ parser.prices[1].product = ScenarioRecord(<<>>).product
        /\ parser.prices[1].round = 1
        /\ parser.prices[1].min_price = [num |-> 1200, den |-> 1]
        /\ parser.prices[1].max_price = [num |-> 1500, den |-> 1]

\* C14, amended: with no earlier header the two rows yield no record and one
\* missing_category defect naming 'Papa'; preceded by one more header row H
\* they yield exactly one price record: category H, subcategory 'Verduras',
\* product 'Papa', round 1, min 1200, max 1500.
C14_ScenarioNeedsOuterHeader ==
    /\ ReturnedFrom(ScenarioRows) =>
          /\ parser.prices = <<>>
          /\ parser.errors = <<ParseError("missing_category", <<>>, <<"P", "a", "p", "a">>, <<>>)>>
    /\ \A h \in PdfHeaderRows :
          ReturnedFrom(<<h>> \o ScenarioRows) =>
              parser.prices = <<ScenarioRecord(clean_text(h[1]))>>

C14_Witness ==
    /\ ReturnedFrom(<<<<<<"F", "r", "u", "t", "a", "s">>>>>> \o ScenarioRows)
    /\ parser.prices = <<ScenarioRecord(<<"F", "r", "u", "t", "a", "s">>)>>
    /\ parser.num_rounds = 1

\* the row that the row loop read last
LastRow ==
    IF parser.kind = "pdf" THEN parser.file.all_rows[parser.i - 1]
    ELSE parser.file.rows[parser.i - 1]

\* C17: in PDF and spreadsheet extraction a product row reached while no
\* category has been resolved adds one missing_category defect naming the
\* product and no price record, and the row loop goes on; every price record
\* emitted has a non-empty category.
C17_MissingCategory ==
    /\ parser.kind # "none" =>
          \A k \in DOMAIN parser.prices : parser.prices[k].category # <<>>
    /\ (/\ AfterProductRow({"pdf", "xls", "xlsx"})
        /\ parser.last.current_category = <<>>
        /\ Len(parser.last.header_stack) < 2) =>
          /\ LastRecords = <<>>
          /\ LastErrors = <<ParseError("missing_category", <<>>, strip(LastRow[1]), <<>>)>>

C17_Witness ==
    /\ parser.kind = "pdf" /\ parser.pc = "returned"
    /\ parser.errors # <<>>
    /\ parser.errors[1].error_type = "missing_category"
    /\ parser.prices # <<>>

\* C19: in spreadsheet extraction, a price cell of a product row that is not
\* empty or 'n.d.' and that parse_price rejects adds one non_numeric_price
\* defect naming the product and the place, and the other place columns of
\* the row are still processed.
C19_UnparsablePriceLogged ==
    (AfterProductRow({"xls", "xlsx"}) /\ parser.last.current_category # <<>>) =>
        LET cols == parser.file.cities_info
            product == strip(LastRow[1])
        IN \A k \in DOMAIN cols :
            LET price_val == LastRow[cols[k].col] IN
            /\ (price_val # <<>> /\ price_val # NotAvailable /\ parse_price(price_val) = NoFloat) =>
                  Len(SelectSeq(LastErrors, LAMBDA x :
                        x = ParseError("non_numeric_price", <<>>, product, cols[k].city))) = 1
            /\ parse_price(price_val) # NoFloat =>
                  \E j \in DOMAIN LastRecords :
                      /\ LastRecords[j].city = cols[k].city
                      /\ LastRecords[j].product = product
                      /\ LastRecords[j].min_price = parse_price(price_val)

\* the month word of a '<day> de <month> de <year>' text is none of the
\* twelve names (in any case)
UnknownMonth(text) == IndexIn(MONTHS_ES, Case(Words(text)[3], FALSE)) = 0

\* C15: parsing a '<day> de <month> de <year>' text whose month word is not
\* one of the twelve Spanish month names yields no date, in parse_spanish_date,
\* in parse_date_from_text and in the header extraction of the PDF parser: it
\* never yields a date in a default month.
C15_UnknownMonthYieldsNoDate ==
    (/\ call.fn \in {"parse_spanish_date", "parse_date_from_text", "_extract_header_info"}
     /\ call.returned
     /\ UnknownMonth(call.text))
    => IF call.fn = "_extract_header_info"
       THEN call.result.date_str = <<>> /\ call.result.parsed_date = <<>>
       ELSE call.result = <<>>

\* the links returned for the page of the call are those of column c of row k
\* that are files
ColumnFiles(k, c) ==
    SelectSeq(call.page.rows[k].anchors[c], LAMBDA a : a.in_files /\ a.file_type # "none")

C18_RoundTwoWhenEitherParses ==
    (call.fn = "_extract_prices_from_row" /\ call.returned)
    => ((\E i \in DOMAIN call.result : call.result[i].round = 2)
        <=> /\ detect_rounds(Prefix(call.all_rows, 10)) >= 2
            /\ Len(call.row) >= 7
            /\ \/ parse_price(call.row[6]) # NoFloat
               \/ parse_price(call.row[7]) # NoFloat)

\* a stored file that cannot be read at all: the reader of a spreadsheet
\* raises on it, or the parser returns no record and one defect for it
Unreadable(c) == c.known /\ c.recs = 0 /\ (c.state = "throws" \/ c.defs = 1)

ErrorsOfType(e, error_type) ==
    LET rows == PersistedInRun(e) IN
    Cardinality({k \in 1..Len(rows) : rows[k].error_type = error_type})

\* C20: for a downloaded file that cannot be read at all PDFParser.parse and
\* ExcelParser.parse return normally: no exception reaches _process_entry,
\* and the owning pdf or excel entry ends its run marked processed, with
\* exactly one parse defect logged and no processing_failed error.
C20_UnreadableFileMarkedProcessed ==
    \A e \in Entries :
        (/\ download_entries[e].file_type \in {"pdf", "excel"}
         /\ frame[e].pc = "ret" /\ ~frame[e].skipped
         /\ Unreadable(files[e])
         /\ ErrorsOfType(e, "download_failed") = 0) =>
            /\ ~frame[e].threw
            /\ download_entries[e].processed_status
            /\ ErrorsOfType(e, "parse_defect") = 1
            /\ ErrorsOfType(e, "processing_failed") = 0

\* C21: a run of _process_entry over an archive that returns without
\* exception marks the entry processed exactly when the expansion reported
\* no failed upload, whatever the extraction of the documents gave: the
\* entry is marked also when one of its extracted documents stays
\* unprocessed with no price record.
C21_ArchiveMarkedOnUploadsOnly ==
    \A e \in Entries :
        (/\ download_entries[e].file_type = "zip"
         /\ frame[e].pc = "ret" /\ ~frame[e].threw) =>
            /\ frame[e].update_called = (frame[e].failed_uploads = 0)
            /\ frame[e].failed_uploads = 0 => download_entries[e].processed_status

C21_Witness ==
    \E e \in Entries :
        /\ download_entries[e].file_type = "zip"
        /\ frame[e].pc = "ret" /\ frame[e].update_called
        /\ download_entries[e].processed_status
        /\ \E k \in DOMAIN extracted_pdfs[e] :
              /\ ~extracted_pdfs[e][k].processed_status
              /\ DocRows(extracted_pdfs[e][k].storage_path) = 0

\* C22: an extracted document that extract_and_store found existing and
\* unprocessed at its derived storage path (its id is in pdf_ids) is among
\* the documents _process_zip extracts in the same run, whichever entry owns
\* the row: when the run fetches its documents, every id of pdf_ids that is
\* still unprocessed is fetched.
C22_ExistingUnprocessedIsExtracted ==
    [][\A e \in Entries :
        (frame[e].pc = "fetch" /\ frame'[e].pc \in {"docs", "log"}) =>
            \A k \in DOMAIN frame[e].pdf_ids :
                ~Row(extracted_pdfs, frame[e].pdf_ids[k]).processed_status
                => frame[e].pdf_ids[k] \in Range(frame'[e].todo)]_vars

\* error rows persisted by the running frame of e that name no extracted PDF
\* and are not the entry-level no_prices_extracted
UploadDefects(e) ==
    LET rows == PersistedInRun(e) IN
    Cardinality({k \in 1..Len(rows) :
        rows[k].extracted_pdf_id = NoPdf /\ rows[k].error_type # "no_prices_extracted"})

\* C23: in the expansion of an archive that was opened, an embedded document
\* whose upload failed for a reason other than 'already exists' has no
\* extracted_pdfs row, is counted in failed_uploads and has left a persisted
\* defect, and the other documents are still handled: every document of the
\* archive is counted in one outcome; a document with no row is a failed one.
C23_FailedUploadLeavesDefect ==
    \A e \in Entries :
        (/\ download_entries[e].file_type = "zip"
         /\ frame[e].pc = "ret" /\ ~frame[e].threw
         /\ files[e].known /\ files[e].state = "ok" /\ frame[e].total_found >= 1) =>
            /\ frame[e].total_found =
                  frame[e].already_processed + frame[e].failed_uploads + Len(frame[e].pdf_ids)
            /\ Cardinality({d \in files[e].docs : get_extracted_pdf_by_storage_path(d) = {}})
                  <= frame[e].failed_uploads
            /\ UploadDefects(e) >= frame[e].failed_uploads

\* the download_errors rows of that type logged for a URL
DownloadErrorsOf(url, error_type) ==
    {k \in DOMAIN scrape.download_errors :
        /\ scrape.download_errors[k].url = url
        /\ scrape.download_errors[k].error_type = error_type}

\* C24: when a scraper run (current-month or historical) has handled all its
\* links, every link it found without a date (and whose URL it found once) has
\* exactly one date_parse_error, and has a download entry stored under the
\* unknown_date path unless its download, upload or insert failed and was logged.
C24_UndatedLinkIsDownloaded ==
    (\A i \in DOMAIN task : task[i].pc = "done") =>
        \A k \in DOMAIN scrape.found :
            LET link == scrape.found[k] IN
            (/\ link.file_date = NoDate
             /\ \A j \in DOMAIN scrape.found : scrape.found[j].url = link.url => j = k) =>
                /\ Cardinality(DownloadErrorsOf(link.url, "date_parse_error")) = 1
                /\ \/ \E e \in get_download_entry_by_link(link.url) :
                        download_entries[e].storage_path = <<"unknown_date", link.url>>
                   \/ \E t \in {"http_error", "upload_error", "database_error"} :
                        DownloadErrorsOf(link.url, t) # {}

\* C25: upload_file and download_file call the storage client at most 5
\* times, call it again only after a transient error, make no call after an
\* error that is not transient, and end by returning: success after a call
\* that raised nothing, the failure value (success False with the last error,
\* or None) otherwise.
C25_StorageRetriesBounded ==
    /\ [](/\ call.calls <= 5
          /\ \A k \in DOMAIN call.errors :
                /\ k < call.calls => is_transient(call.errors[k])
                /\ ~is_transient(call.errors[k]) => call.calls = k /\ call.pc # "try"
          /\ call.pc = "returned" =>
                IF call.fn = "upload_file"
                THEN /\ call.result.success = (Len(call.errors) < call.calls)
                     /\ ~call.result.success => call.result.error = call.last_error
                ELSE call.result.data = (Len(call.errors) < call.calls))
    /\ <>(call.pc = "returned")

C25_Witness ==
    /\ call.fn = "upload_file"
    /\ call.pc = "returned"
    /\ call.calls = 5
    /\ ~call.result.success
    /\ is_transient(call.last_error)

\* C26: the result of extract_and_store, as _process_zip holds it, either
\* counts every embedded PDF in exactly one outcome (total_found =
\* already_processed + failed_uploads + len(pdf_ids), newly_extracted <=
\* len(pdf_ids), success iff failed_uploads = 0), or is the result of an
\* archive that could not be opened (no ids, 0 found, 1 failed, no success);
\* a corrupt archive gives the latter, an archive with PDFs the former.
C26_EveryPdfInOneOutcome ==
    \A e \in Entries :
        LET f == frame[e] IN
        (/\ download_entries[e].file_type = "zip"
         /\ f.pc \in {"docs", "log", "status", "ret"}
         /\ ~f.threw) =>
            /\ \/ /\ f.total_found = f.already_processed + f.failed_uploads + Len(f.pdf_ids)
                  /\ f.newly_extracted <= Len(f.pdf_ids)
                  /\ f.extraction_success = (f.failed_uploads = 0)
               \/ /\ f.pdf_ids = <<>> /\ f.total_found = 0 /\ f.failed_uploads = 1
                  /\ f.already_processed = 0 /\ f.newly_extracted = 0
                  /\ ~f.extraction_success
            /\ f.total_found = 0 \/ f.failed_uploads <= f.total_found
            /\ (files[e].known /\ files[e].state = "bad") =>
                  f.total_found = 0 /\ f.failed_uploads = 1 /\ ~f.extraction_success

C26_Witness ==
    \E e \in Entries :
        /\ download_entries[e].file_type = "zip"
        /\ frame[e].pc = "ret" /\ ~frame[e].threw
        /\ frame[e].total_found = 1
        /\ frame[e].newly_extracted = 1
        /\ frame[e].extraction_success
        /\ \E e2 \in Entries :
              /\ download_entries[e2].file_type = "zip"
              /\ frame[e2].pc = "ret" /\ ~frame[e2].threw
              /\ files[e2].known /\ files[e2].state = "bad"

\* C27: the step of _process_entry that calls update_download_entry_status
\* finds every defect collected in the run (the parsers' defects, then the
\* no_prices_extracted defect of a run without records) already persisted, in
\* that order, and persists none itself; and once the call is made, the run
\* persists no further defect for the entry.
C27_DefectsLoggedBeforeFlag ==
    [][\A e \in Entries :
        LET f == frame[e]
            collected == IF f.pc = "status"
                         THEN f.all_errors \o NoPricesErrors(f.total_prices) ELSE <<>>
        IN
        /\ (~f.update_called /\ frame'[e].update_called) =>
              /\ download_entries'[e].processed_status
              /\ processing_errors'[e] = processing_errors[e]
              /\ Len(PersistedInRun(e)) = Len(collected)
              /\ \A k \in DOMAIN collected :
                    /\ PersistedInRun(e)[k].error_type = collected[k].error_type
                    /\ PersistedInRun(e)[k].extracted_pdf_id = collected[k].extracted_pdf_id
        /\ (f.update_called /\ frame'[e].update_called) =>
              processing_errors'[e] = processing_errors[e]
        /\ (~download_entries[e].processed_status /\ download_entries'[e].processed_status) =>
              ~f.update_called /\ frame'[e].update_called]_vars

C27_Witness ==
    \E e \in Entries :
        /\ frame[e].pc = "ret" /\ frame[e].update_called /\ ~frame[e].skipped
        /\ download_entries[e].processed_status
        /\ frame[e].total_prices = 0
        /\ Len(frame[e].all_errors) >= 1
        /\ Len(PersistedInRun(e)) = Len(frame[e].all_errors) + 1

\* C28: the turn of _process_zip's loop that handles an extracted document
\* leaves it marked processed exactly when that turn inserted at least one
\* price record of it or its extraction returned no defect; and the next
\* expansion of the archive fetches every document of the entry that is not
\* marked, so a document left with zero records and a defect is handled again.
C28_PdfMarkedOnPricesOrNoDefect ==
    [][\A e \in Entries :
        LET f == frame[e] IN
        /\ (f.pc = "docs" /\ frame'[e].todo = Tail(f.todo) /\ frame'[e].pc \in {"docs", "log"}) =>
              LET id == Head(f.todo)
                  d == Row(extracted_pdfs, id).storage_path
                  inserted == processed_prices'[e][d] - processed_prices[e][d]
                  added == Suffix(frame'[e].all_errors, Len(f.all_errors))
                  returned == SelectSeq(added,
                                  LAMBDA x : x.error_type # "no_prices_extracted")
              IN Row(extracted_pdfs', id).processed_status
                     = (Row(extracted_pdfs, id).processed_status
                        \/ inserted > 0 \/ returned = <<>>)
        /\ (f.pc = "fetch" /\ frame'[e].pc \in {"docs", "log"}) =>
              \A k \in DOMAIN extracted_pdfs[e] :
                  ~extracted_pdfs[e][k].processed_status
                      => <<e, k>> \in Range(frame'[e].todo)]_vars

\* a document of an earlier run that kept its defect and no record is
\* about to be handled again
C28_Witness ==
    \E e \in Entries :
        /\ frame[e].pc = "docs"
        /\ LET id == Head(frame[e].todo) IN
           /\ ~Row(extracted_pdfs, id).processed_status
           /\ DocRows(Row(extracted_pdfs, id).storage_path) = 0
           /\ \E k \in 1..frame[e].errors_at_start :
                 /\ processing_errors[e][k].extracted_pdf_id = id
                 /\ processing_errors[e][k].error_type # "no_prices_extracted"

\* C29: a finished _process_entry whose result says success called
\* update_download_entry_status in that run, and either inserted at least one
\* price record in that run or took the bulletin short-circuit; a run whose
\* archive expansion had failures, or that raised, returns success False.
C29_SuccessMeansMarked ==
    \A e \in Entries :
        LET f == frame[e] IN
        f.pc = "ret" =>
            /\ f.result_success =>
                  /\ f.update_called
                  /\ download_entries[e].processed_status
                  /\ f.total_prices > 0 \/ f.skipped
                  /\ f.skipped => IsBulletin(download_entries[e])
            /\ f.threw => ~f.result_success
            /\ (download_entries[e].file_type = "zip" /\ f.failed_uploads > 0)
                  => ~f.result_success

C29_Witness ==
    \E e \in Entries :
        /\ frame[e].pc = "ret"
        /\ download_entries[e].file_type = "zip"
        /\ frame[e].result_success
        /\ frame[e].total_prices > 0
        /\ frame[e].update_called

\* C30: after a product row of a PDF the header stack is empty, whatever it
\* held in front of the row; so the stack in front of a product row holds the
\* headers read since the product row before it and no other, and the pair
\* resolved for the row is made of those headers and of the pair remembered
\* in front of the row.
C30_StackEmptyAfterProduct ==
    AfterProductRow({"pdf"}) =>
        LET rows == parser.file.all_rows
            cur == parser.i - 1
            skipped == {k \in 1..cur : \/ rows[k] = <<>>
                                       \/ rows[k][1] = <<>>
                                       \/ is_header_row(rows[k])
                                       \/ strip(rows[k][1]) = <<>>}
            products == {k \in (1..(cur - 1)) \ skipped : row_has_price_data(rows[k])}
            since == {k \in (1..(cur - 1)) \ skipped :
                        /\ \A j \in products : j < k
                        /\ clean_text(strip(rows[k][1])) # <<>>}
            pushed == {clean_text(strip(rows[k][1])) : k \in since}
        IN /\ parser.header_stack = <<>>
           /\ Len(parser.last.header_stack) = Cardinality(since)
           /\ Range(parser.last.header_stack) = pushed
           /\ {parser.current_category, parser.current_subcategory} \subseteq
                 pushed \cup {parser.last.current_category, parser.last.current_subcategory}

\* a second product row, read after a product row that had three headers in
\* front of it, finds an empty stack and keeps the pair of the first
C30_Witness ==
    /\ AfterProductRow({"pdf"})
    /\ parser.i - 1 = 5
    /\ Cardinality({parser.file.all_rows[k] : k \in 1..3} \cap PdfHeaderRows) = 3
    /\ parser.last.header_stack = <<>>
    /\ parser.header_stack = <<>>
    /\ Len(parser.prices) >= 2
    /\ parser.current_category = clean_text(parser.file.all_rows[2][1])
    /\ parser.current_subcategory = clean_text(parser.file.all_rows[3][1])

====
